---- MODULE Spec2Model ----
(***************************************************************************)
(* Option_Agent: the announcement pipeline (scrape -> classify ->          *)
(* research), the research synthesizer, the classification filter and the  *)
(* pre-classification deduplication, as state machines.                    *)
(*                                                                         *)
(* Numbers: fractions (return, gap_pct, atr_pct, vol_spike) are held in    *)
(* thousandths, so 0.03 is 30 and 1.5 is 1500.  Dates are day numbers.     *)
(* A Python value that may be None is a record with a tag.                 *)
(***************************************************************************)
EXTENDS Integers, Sequences, FiniteSets, TLC

VARIABLES
    pc,               \* position of the running operation
    state,            \* WorkflowState threaded between the LangGraph nodes
    result,           \* what run_daily_announcement_pipeline returned
    llm_calls,        \* classifier submissions made so far (symbol, headline)
    research_calls,   \* research_stock_with_announcement invocations made so far
    scraped,          \* history: the announcements the scrape node produced
    classified,       \* history: high_vol_announcements as the classify node produced them
    call,             \* the operation under check in the single-operation specifications
    ret,              \* its return value
    bse_events,       \* the bse_events table: the persisted announcements, in insertion order
    filter_output     \* history: the list the classify node handed to its final de-duplication

vars == <<pc, state, result, llm_calls, research_calls, scraped, classified, call, ret, bse_events,
          filter_output>>

(***************************************************************************)
(* Bounds of the model.                                                    *)
(***************************************************************************)
MaxPriceDays == 2        \* dates in the 6-day window that have a FeatureRow
MaxAnns == 2             \* announcements in one scrape
MaxDedupAnns == 3        \* announcements in one deduplication call
MaxFilterAnns == 2       \* announcements in one filter call
MaxClassifications == 2  \* largest max_classifications tried
MaxUniverse == 3         \* symbols in the stocks table
MaxLimit == 3            \* largest limit of a candidate scan
MaxChainRows == 3        \* option_chain rows of one symbol and date
MaxBatch == 3            \* announcements in one research batch
MaxHistory == 2          \* daily_prices rows of one symbol
MaxScrape == 2           \* announcements one ingestion run scrapes
MaxRuns == 2             \* ingestion runs in a row
MaxWorkingSet == 2       \* scored symbols the scaled-down candidate scan keeps
AnnDate == 10            \* the day number taken as the announcement / target date

(***************************************************************************)
(* Python values.                                                          *)
(***************************************************************************)
PyNone == [type |-> "NoneType", val |-> FALSE]

PyBool(b) == [type |-> "bool", val |-> b]

\* bool(v) for a value that is a bool or None
Truthy(v) == v.type = "bool" /\ v.val

Absent == "<absent>"       \* a dict key that is not there

\* dict.get(key, default)
Get(d, key, default) == IF d[key] = Absent THEN default ELSE d[key]

\* what a call did: returned v or raised e; log is what it recorded on the way
Returned(v, log) == [raised |-> FALSE, value |-> v, lookups |-> log]

Raised(e, log) == [raised |-> TRUE, error |-> e, lookups |-> log]

Abs(x) == IF x < 0 THEN -x ELSE x

Min2(a, b) == IF a < b THEN a ELSE b

\* the sequences over S of length at most n
SeqsUpTo(S, n) == UNION { [1..k -> S] : k \in 0..n }

(***************************************************************************)
(* Symbols.  str.upper() and the F&O universe.                             *)
(***************************************************************************)
NoSymbol == ""             \* symbol None or empty: `not symbol`

Symbols == {"abc", "ABC", "XYZ", "SME"}

upper(s) == CASE s = "abc" -> "ABC"
              [] OTHER -> s

get_fno_symbols == {"ABC", "XYZ"}

(***************************************************************************)
(* Classification (AIEventImpact) and the classifier's failure default.    *)
(***************************************************************************)
Directions == {"bullish", "bearish", "neutral"}

Confidences == {"low", "medium", "high"}

Classification(et, dir, win, conf, expl) ==
    [event_type |-> et, ai_direction |-> dir, reaction_window |-> win,
     confidence |-> conf, explanation |-> expl, headline |-> Absent]

\* classification = {} : research_multiple_stocks' default
EmptyClassification ==
    [event_type |-> Absent, ai_direction |-> Absent, reaction_window |-> Absent,
     confidence |-> Absent, explanation |-> Absent, headline |-> Absent]

(***************************************************************************)
(* Technical metrics (score_symbol_for_date's dict) and liquidity          *)
(* snapshots (get_options_liquidity's dict), or None.                      *)
(***************************************************************************)
NoMetrics == [present |-> FALSE, ret |-> 0, vol_spike |-> 0, gap_pct |-> 0, atr_pct |-> 0]

Metrics(r, v, g, a) == [present |-> TRUE, ret |-> r, vol_spike |-> v, gap_pct |-> g, atr_pct |-> a]

NoLiquidity == [present |-> FALSE, spot |-> 0, expiry |-> 0, total_oi |-> 0, total_volume |-> 0]

Liquidity(s, e, oi, vol) == [present |-> TRUE, spot |-> s, expiry |-> e, total_oi |-> oi, total_volume |-> vol]

(***************************************************************************)
(* classify_direction_and_strategy (candidate_access.py).                  *)
(***************************************************************************)
BullRet == 30
BearRet == -30
DirVolSpike == 1300
BullGap == -10
SpreadAtr == 40
QuietRet == 10
QuietVolSpike == 1200
RangeAtr == 30

\* classify_direction_and_strategy with the gap test gap_pct >= -0.01
classify_direction_gap_inclusive(m) ==
    IF m.ret >= BullRet /\ m.vol_spike >= DirVolSpike /\ m.gap_pct >= BullGap
    THEN <<"bullish", IF m.atr_pct < SpreadAtr THEN "buy near-ATM call" ELSE "bull call spread">>
    ELSE IF m.ret <= BearRet /\ m.vol_spike >= DirVolSpike
    THEN <<"bearish", IF m.atr_pct < SpreadAtr THEN "buy near-ATM put" ELSE "bear put spread">>
    ELSE IF Abs(m.ret) < QuietRet /\ m.vol_spike < QuietVolSpike
    THEN <<"neutral", "very quiet">>
    ELSE IF m.atr_pct >= RangeAtr
    THEN <<"neutral", "range-bound options">>
    ELSE <<"neutral", "no strong view">>

classify_direction_and_strategy(m) ==
    IF m.ret >= BullRet /\ m.vol_spike >= DirVolSpike /\ m.gap_pct > BullGap
    THEN <<"bullish", IF m.atr_pct < SpreadAtr THEN "buy near-ATM call" ELSE "bull call spread">>
    ELSE IF m.ret <= BearRet /\ m.vol_spike >= DirVolSpike
    THEN <<"bearish", IF m.atr_pct < SpreadAtr THEN "buy near-ATM put" ELSE "bear put spread">>
    ELSE IF Abs(m.ret) < QuietRet /\ m.vol_spike < QuietVolSpike
    THEN <<"neutral", "very quiet">>
    ELSE IF m.atr_pct >= RangeAtr
    THEN <<"neutral", "range-bound options">>
    ELSE <<"neutral", "no strong view">>

(***************************************************************************)
(* The market-data source as the synthesizer sees it for one symbol: per   *)
(* date either no price row, or a row with the FeatureRow that             *)
(* score_symbol_for_date derives on it and the option-chain liquidity on   *)
(* that date.  get_spot_price reads the same price row, so a date without  *)
(* a price row has no liquidity snapshot at any band.                      *)
(***************************************************************************)

Window(d) == (d - 5)..d

Bands == {100, 200}

NoRow == [row |-> FALSE, metrics |-> NoMetrics, chain |-> "none"]

PriceRow(m, c) == [row |-> TRUE, metrics |-> m, chain |-> c]

EmptyTable == [d \in Window(AnnDate) |-> NoRow]

\* score_symbol_for_date(db, symbol, d): the FeatureRow or None
score_symbol_for_date(db, d) ==
    IF d \in DOMAIN db.prices /\ db.prices[d].row THEN db.prices[d].metrics ELSE NoMetrics

\* option_chain rows of one symbol on one date
OptionRow(e, k, oi, vol) == [expiry |-> e, strike |-> k, oi |-> oi, volume |-> vol]

\* the option_chain rows dated d that a price row's chain kind stands for: "near" is
\* liquid at the money, with a further strike, a later expiry and an expired one;
\* "wide" has open interest only 70 below the spot of 450; "volonly" trades with no
\* open interest; "thin" and "dust" carry an open interest of 5; "expired" has no
\* expiry on or after d
ChainRows(kind, d) ==
    CASE kind = "near"    -> { OptionRow(d + 3, 450, 1200, 300), OptionRow(d + 3, 520, 300, 0),
                               OptionRow(d + 10, 450, 9000, 900), OptionRow(d - 1, 450, 70, 7) }
      [] kind = "wide"    -> { OptionRow(d + 3, 380, 800, 0) }
      [] kind = "volonly" -> { OptionRow(d + 3, 450, 0, 50) }
      [] kind = "thin"    -> { OptionRow(d + 3, 450, 5, 200) }
      [] kind = "dust"    -> { OptionRow(d + 3, 450, 5, 50) }
      [] kind = "expired" -> { OptionRow(d - 1, 450, 500, 50) }
      [] OTHER            -> {}

NoSpot == [present |-> FALSE, close |-> 0]

Spot(c) == [present |-> TRUE, close |-> c]

\* get_spot_price(db, symbol, d): the close of the price row, or None
get_spot_price(db, d) ==
    IF d \in DOMAIN db.prices /\ db.prices[d].row THEN Spot(450) ELSE NoSpot

NoExpiry == 0

\* get_nearest_expiry without the filter expiry >= trade_date
get_earliest_expiry(chain, trade_date) ==
    LET all == { r.expiry : r \in chain }
    IN IF all = {} THEN NoExpiry
       ELSE CHOOSE e \in all : \A f \in all : e <= f

\* get_nearest_expiry: min(expiry) over the rows dated trade_date with expiry >= trade_date
get_nearest_expiry(chain, trade_date) ==
    LET live == { r.expiry : r \in { q \in chain : q.expiry >= trade_date } }
    IN IF live = {} THEN NoExpiry
       ELSE CHOOSE e \in live : \A f \in live : e <= f

\* coalesce(sum(column), 0) over a set of rows
RECURSIVE SumColumn(_, _)
SumColumn(rows, column) ==
    IF rows = {} THEN 0
    ELSE LET r == CHOOSE q \in rows : TRUE
         IN r[column] + SumColumn(rows \ {r}, column)

\* get_options_liquidity, lines 56-96, on the spot and the option_chain rows it reads;
\* moneyness_band in thousandths, strikes compared as strike >= spot * (1 - band)
LiquiditySnapshot(spot, chain, trade_date, moneyness_band) ==
    IF ~spot.present \/ spot.close <= 0 THEN NoLiquidity
    ELSE LET expiry == get_nearest_expiry(chain, trade_date) IN
         IF expiry = NoExpiry THEN NoLiquidity
         ELSE LET in_band == { r \in chain :
                                 /\ r.expiry = expiry
                                 /\ r.strike * 1000 >= spot.close * (1000 - moneyness_band)
                                 /\ r.strike * 1000 <= spot.close * (1000 + moneyness_band) }
                  total_oi == SumColumn(in_band, "oi")
                  total_volume == SumColumn(in_band, "volume")
              IN IF total_oi = 0 /\ total_volume = 0 THEN NoLiquidity
                 ELSE Liquidity(spot.close, expiry, total_oi, total_volume)

\* get_options_liquidity(db, symbol, d, band): the snapshot or None
get_options_liquidity(db, d, band) ==
    IF d \in DOMAIN db.prices
    THEN LiquiditySnapshot(get_spot_price(db, d), ChainRows(db.prices[d].chain, d), d, band)
    ELSE NoLiquidity

(***************************************************************************)
(* The candidate scan, get_top_candidates_for_date (candidate_access.py),  *)
(* over a database of several symbols: db.stocks is the stocks table in    *)
(* the order the query enumerates it, db.prices[symbol] the symbol's price *)
(* table.  db.fail names the collaborator that raises: "none", "dates"     *)
(* (the MAX(date) query), "score" (equity scoring), "liquidity".           *)
(***************************************************************************)
NoDate == 0                \* a date that is None

\* score_row, lines 108-137, on a FeatureRow whose features are all defined
score_row(m) ==
    m.atr_pct * 100
    + (IF m.vol_spike - 1000 > 0 THEN (m.vol_spike - 1000) * 2 ELSE 0)
    + Abs(m.gap_pct) * 10
    + Abs(m.ret) * 10

\* seq[:n] for n >= 0
Take(seq, n) == SubSeq(seq, 1, Min2(n, Len(seq)))

\* _get_last_trade_date taking MIN(date) instead of MAX(date)
get_first_trade_date(db, target_date) ==
    LET dates == { d \in Window(AnnDate) :
                     d <= target_date /\ \E sym \in DOMAIN db.prices : db.prices[sym][d].row }
    IN IF db.fail = "dates" \/ dates = {} THEN NoDate
       ELSE CHOOSE d \in dates : \A e \in dates : d <= e

\* _get_last_trade_date: MAX(date) over daily_prices with date <= target_date, None when
\* there is none or the query fails
get_last_trade_date(db, target_date) ==
    LET dates == { d \in Window(AnnDate) :
                     d <= target_date /\ \E sym \in DOMAIN db.prices : db.prices[sym][d].row }
    IN IF db.fail = "dates" \/ dates = {} THEN NoDate
       ELSE CHOOSE d \in dates : \A e \in dates : e <= d

\* the view of one symbol that score_symbol_for_date and get_options_liquidity read
SymbolDb(db, symbol) == [prices |-> db.prices[symbol], fail |-> db.fail]

\* list.sort(key=score, reverse=True) with the ties the other way round
RECURSIVE InsertScoredTiesReversed(_, _)
InsertScoredTiesReversed(sorted, r) ==
    IF sorted = <<>> THEN <<r>>
    ELSE IF Head(sorted).score > r.score
    THEN <<Head(sorted)>> \o InsertScoredTiesReversed(Tail(sorted), r)
    ELSE <<r>> \o sorted

\* list.sort(key=score, reverse=True): stable, equal scores keep their order
RECURSIVE InsertScored(_, _)
InsertScored(sorted, r) ==
    IF sorted = <<>> THEN <<r>>
    ELSE IF Head(sorted).score >= r.score
    THEN <<Head(sorted)>> \o InsertScored(Tail(sorted), r)
    ELSE <<r>> \o sorted

RECURSIVE SortScored(_, _)
SortScored(rows, sorted) ==
    IF rows = <<>> THEN sorted
    ELSE SortScored(Tail(rows), InsertScored(sorted, Head(rows)))

\* signals.py lines 186-192: the FeatureRows of the symbols that have one, in the order
\* of the stocks table
RECURSIVE ScoreEach(_, _, _)
ScoreEach(db, target_date, k) ==
    IF k > Len(db.stocks) THEN <<>>
    ELSE LET symbol == db.stocks[k]
             metrics == score_symbol_for_date(SymbolDb(db, symbol), target_date)
             rest == ScoreEach(db, target_date, k + 1)
         IN IF metrics.present
            THEN << [symbol |-> symbol, date |-> target_date, score |-> score_row(metrics),
                     metrics |-> metrics] >> \o rest
            ELSE rest

\* signals.py lines 186-189: the score_symbol_for_date calls made, as <<symbol, date>>
ScoreCalls(db, target_date) == [k \in 1..Len(db.stocks) |-> <<db.stocks[k], target_date>>]

RECURSIVE SortScoredTiesReversed(_, _)
SortScoredTiesReversed(rows, sorted) ==
    IF rows = <<>> THEN sorted
    ELSE SortScoredTiesReversed(Tail(rows), InsertScoredTiesReversed(sorted, Head(rows)))

\* score_all_symbols_for_date with a sort that is not stable
score_all_symbols_ties_reversed(db, target_date, limit) ==
    Take(SortScoredTiesReversed(ScoreEach(db, target_date, 1), <<>>), limit)

\* score_all_symbols_for_date, signals.py lines 174-195
score_all_symbols_for_date(db, target_date, limit) ==
    Take(SortScored(ScoreEach(db, target_date, 1), <<>>), limit)

\* line 140: the moneyness bands tried in turn, in thousandths
CandidateBands == <<50, 100, 200, 500>>

\* lines 142-146: the fetch raises, at every band or at band 0.05 only
LiquidityFetchFails(sdb, band) ==
    \/ sdb.fail = "liquidity"
    \/ sdb.fail = "liquidity_at_0.05" /\ band = 50

\* LiquidityScan going on to the wider bands after a snapshot was found
RECURSIVE LiquidityScanAllBands(_, _, _)
LiquidityScanAllBands(sdb, target_date, bands) ==
    IF bands = <<>> THEN [liq |-> NoLiquidity, tried_bands |-> <<>>]
    ELSE LET liq == IF LiquidityFetchFails(sdb, Head(bands)) THEN NoLiquidity
                    ELSE get_options_liquidity(sdb, target_date, Head(bands))
             rest == LiquidityScanAllBands(sdb, target_date, Tail(bands))
         IN [liq |-> IF liq.present THEN liq ELSE rest.liq,
             tried_bands |-> <<Head(bands)>> \o rest.tried_bands]

\* lines 138-150: the bands tried in turn until one gives a snapshot; a failing fetch
\* counts as None
RECURSIVE LiquidityScan(_, _, _)
LiquidityScan(sdb, target_date, bands) ==
    IF bands = <<>> THEN [liq |-> NoLiquidity, tried_bands |-> <<>>]
    ELSE LET liq == IF LiquidityFetchFails(sdb, Head(bands)) THEN NoLiquidity
                    ELSE get_options_liquidity(sdb, target_date, Head(bands))
         IN IF liq.present THEN [liq |-> liq, tried_bands |-> <<Head(bands)>>]
            ELSE LET rest == LiquidityScan(sdb, target_date, Tail(bands))
                 IN [rest EXCEPT !.tried_bands = <<Head(bands)>> \o @]

\* the snapshot the scan ends with
FirstLiquidity(sdb, target_date, bands) == LiquidityScan(sdb, target_date, bands).liq

\* BelowFloors dropping a symbol that misses either floor
BelowEitherFloor(total_oi, total_volume, min_oi, min_volume) ==
    total_oi < min_oi \/ total_volume < min_volume

\* line 162
BelowFloors(total_oi, total_volume, min_oi, min_volume) ==
    total_oi < min_oi /\ total_volume < min_volume

\* lines 129-178: filtered, skip_reasons as <<symbol, reason>> pairs, and queries, the
\* get_options_liquidity calls made, as <<symbol, band>> pairs in the order made
RECURSIVE LiquidityFilter(_, _, _, _, _)
LiquidityFilter(db, base_results, target_date, min_oi, min_volume) ==
    IF base_results = <<>> THEN [filtered |-> <<>>, skip_reasons |-> <<>>, queries |-> <<>>]
    ELSE LET r == Head(base_results)
             rest == LiquidityFilter(db, Tail(base_results), target_date, min_oi, min_volume)
             scan == LiquidityScan(SymbolDb(db, r.symbol), target_date, CandidateBands)
             liq == scan.liq
             ds == classify_direction_and_strategy(r.metrics)
             queried == [rest EXCEPT !.queries =
                            [k \in 1..Len(scan.tried_bands) |-> <<r.symbol, scan.tried_bands[k]>>]
                                \o @]
         IN IF r.symbol = NoSymbol THEN rest
            ELSE IF ~liq.present
            THEN [queried EXCEPT !.skip_reasons = << <<r.symbol, "no_liquidity_at_bands">> >> \o @]
            ELSE IF BelowFloors(liq.total_oi, liq.total_volume, min_oi, min_volume)
            THEN [queried EXCEPT !.skip_reasons = << <<r.symbol, "low_liquidity">> >> \o @]
            ELSE [queried EXCEPT !.filtered =
                     << [symbol |-> r.symbol, date |-> r.date, score |-> r.score,
                         metrics |-> r.metrics,
                         spot |-> liq.spot, expiry |-> liq.expiry, total_oi |-> liq.total_oi,
                         total_volume |-> liq.total_volume,
                         direction |-> ds[1], strategy_hint |-> ds[2]] >> \o @]

\* TopCandidates cutting the scored symbols down to the working set only after the
\* liquidity filter
TopCandidatesFilterFirst(db, target_date, limit, min_oi, min_volume, working_set) ==
    LET actual_date == get_last_trade_date(db, target_date) IN
    IF actual_date = NoDate
    THEN [raised |-> FALSE, value |-> <<>>, lookups |-> <<>>, queries |-> <<>>,
          scored |-> <<>>]
    ELSE IF db.fail = "score" THEN Raised("score", <<>>)
    ELSE LET base_results == score_all_symbols_for_date(db, actual_date, Len(db.stocks))
             f == LiquidityFilter(db, base_results, actual_date, min_oi, min_volume)
         IN [raised |-> FALSE,
             value |-> Take(Take(SortScored(f.filtered, <<>>), working_set), limit),
             lookups |-> f.skip_reasons, queries |-> f.queries,
             scored |-> ScoreCalls(db, actual_date)]

\* lines 79-197, with the size of the working set that line 117 asks of
\* score_all_symbols_for_date as a parameter; limit >= 1 (the routes validate it)
TopCandidates(db, target_date, limit, min_oi, min_volume, working_set) ==
    LET actual_date == get_last_trade_date(db, target_date) IN
    IF actual_date = NoDate
    THEN [raised |-> FALSE, value |-> <<>>, lookups |-> <<>>, queries |-> <<>>,
          scored |-> <<>>]
    ELSE IF db.fail = "score" THEN Raised("score", <<>>)
    ELSE LET base_results == score_all_symbols_for_date(db, actual_date, working_set)
             f == LiquidityFilter(db, base_results, actual_date, min_oi, min_volume)
         IN [raised |-> FALSE, value |-> Take(SortScored(f.filtered, <<>>), limit),
             lookups |-> f.skip_reasons, queries |-> f.queries,
             scored |-> ScoreCalls(db, actual_date)]

\* line 117: limit=500
WorkingSetSize == 500

\* lines 79-197
get_top_candidates_for_date(db, target_date, limit, min_oi, min_volume) ==
    TopCandidates(db, target_date, limit, min_oi, min_volume, WorkingSetSize)

(***************************************************************************)
(* research_stock_with_announcement (stock_researcher.py).                 *)
(***************************************************************************)
AnnouncementView(cls) ==
    [headline |-> Get(cls, "headline", ""),
     event_type |-> cls.event_type,
     direction |-> cls.ai_direction,
     reaction_window |-> cls.reaction_window,
     confidence |-> cls.confidence,
     explanation |-> Get(cls, "explanation", "")]

\* lines 50-82 and 109-141: the two announcement-only results
AnnouncementOnly(symbol_upper, announcement_date, cls, hint, score, note) ==
    [symbol |-> symbol_upper,
     announcement_date |-> announcement_date,
     announcement |-> AnnouncementView(cls),
     technicals |-> [direction |-> "unknown", strategy_hint |-> hint, present |-> FALSE,
                     daily_return |-> 0, vol_spike |-> 0, atr_pct |-> 0, gap_pct |-> 0,
                     spot_price |-> 0],
     options_liquidity |-> [total_oi |-> 0, total_volume |-> 0, expiry |-> 0],
     final_recommendation |->
         [direction |-> Get(cls, "ai_direction", "neutral"),
          confidence_score |-> score,
          trade_ready |-> PyBool(FALSE),
          suggested_strategy |-> [text |-> hint, timing |-> Absent]],
     note |-> note]

\* TechnicalsFrom trying the earlier dates even after a FeatureRow was found
RECURSIVE TechnicalsFromEveryDate(_, _, _)
TechnicalsFromEveryDate(db, announcement_date, days_back) ==
    IF days_back >= 6
    THEN [metrics |-> NoMetrics, used_date |-> announcement_date, tried |-> <<>>]
    ELSE LET try_date == announcement_date - days_back
             metrics == score_symbol_for_date(db, try_date)
             rest == TechnicalsFromEveryDate(db, announcement_date, days_back + 1)
         IN IF metrics.present
            THEN [metrics |-> metrics, used_date |-> try_date,
                  tried |-> <<try_date>> \o rest.tried]
            ELSE [rest EXCEPT !.tried = <<try_date>> \o @]

\* lines 90-97: the dates tried, announcement date first, until a FeatureRow is found
RECURSIVE TechnicalsFrom(_, _, _)
TechnicalsFrom(db, announcement_date, days_back) ==
    IF days_back >= 6
    THEN [metrics |-> NoMetrics, used_date |-> announcement_date, tried |-> <<>>]
    ELSE LET try_date == announcement_date - days_back
             metrics == score_symbol_for_date(db, try_date)
         IN IF metrics.present
            THEN [metrics |-> metrics, used_date |-> try_date, tried |-> <<try_date>>]
            ELSE LET rest == TechnicalsFrom(db, announcement_date, days_back + 1)
                 IN [rest EXCEPT !.tried = <<try_date>> \o @]

\* lines 144-152: band 0.1 then band 0.2 on each date of the list in turn
RECURSIVE LiquidityFrom(_, _)
LiquidityFrom(db, dates) ==
    IF dates = <<>> THEN [liquidity |-> NoLiquidity, tried |-> <<>>]
    ELSE LET d == Head(dates)
             narrow == get_options_liquidity(db, d, 100)
             wide == get_options_liquidity(db, d, 200)
         IN IF narrow.present THEN [liquidity |-> narrow, tried |-> << <<d, 100>> >>]
            ELSE IF wide.present THEN [liquidity |-> wide, tried |-> << <<d, 100>>, <<d, 200>> >>]
            ELSE LET rest == LiquidityFrom(db, Tail(dates))
                 IN [rest EXCEPT !.tried = << <<d, 100>>, <<d, 200>> >> \o @]

\* FinalDirection following the announcement whenever it is directional
FinalDirectionAnnouncementWins(announcement_direction, direction) ==
    IF announcement_direction \in {"bullish", "bearish"} THEN announcement_direction
    ELSE "neutral"

\* lines 173-181
FinalDirection(announcement_direction, direction) ==
    IF announcement_direction = "bullish" /\ direction \in {"bullish", "neutral"} THEN "bullish"
    ELSE IF announcement_direction = "bearish" /\ direction \in {"bearish", "neutral"} THEN "bearish"
    ELSE IF announcement_direction = direction /\ direction # "neutral" THEN direction
    ELSE "neutral"

\* ConfidenceScore without the clamp of line 206
ConfidenceScoreUnclamped(announcement_direction, direction, ann_confidence, metrics) ==
    50 + (IF announcement_direction = direction /\ direction # "neutral" THEN 20 ELSE 0)
       + (IF ann_confidence = "high" THEN 15 ELSE IF ann_confidence = "medium" THEN 10 ELSE 0)
       + (IF metrics.vol_spike > 1500 THEN 10 ELSE 0)
       + (IF Abs(metrics.ret) > 30 THEN 10 ELSE 0)

\* lines 184-206
ConfidenceScore(announcement_direction, direction, ann_confidence, metrics) ==
    LET agree == IF announcement_direction = direction /\ direction # "neutral" THEN 20 ELSE 0
        conf == IF ann_confidence = "high" THEN 15
                ELSE IF ann_confidence = "medium" THEN 10 ELSE 0
        vol == IF metrics.vol_spike > 1500 THEN 10 ELSE 0
        move == IF Abs(metrics.ret) > 30 THEN 10 ELSE 0
    IN Min2(50 + agree + conf + vol + move, 100)

\* TradeReady without the open-interest test: any resolved snapshot is enough
TradeReadyAnySnapshot(confidence_score, liquidity) ==
    IF ~(confidence_score >= 60) THEN PyBool(FALSE)
    ELSE IF ~liquidity.present THEN PyNone
    ELSE PyBool(TRUE)

\* line 237: confidence_score >= 60 and liquidity and liquidity.get("total_oi", 0) > 0
TradeReady(confidence_score, liquidity) ==
    IF ~(confidence_score >= 60) THEN PyBool(FALSE)
    ELSE IF ~liquidity.present THEN PyNone
    ELSE PyBool(liquidity.total_oi > 0)

\* _generate_strategy_recommendation, lines 248-280
generate_strategy_recommendation(final_direction, metrics, reaction_window) ==
    IF final_direction = "neutral"
    THEN [text |-> "Wait for clearer signals or trade intraday only", timing |-> Absent]
    ELSE LET timing == IF reaction_window = "same_day" THEN "immediate"
                       ELSE IF reaction_window = "next_day" THEN "next trading session"
                       ELSE "within 1-3 days"
         IN IF final_direction = "bullish"
            THEN [text |-> IF metrics.atr_pct < 40 THEN "Buy near-ATM call options"
                           ELSE "Bull call spread", timing |-> timing]
            ELSE [text |-> IF metrics.atr_pct < 40 THEN "Buy near-ATM put options"
                           ELSE "Bear put spread", timing |-> timing]

\* db.fail names the collaborator that raises when first used: "none", "universe"
\* (get_fno_symbols), "score" (score_symbol_for_date), "liquidity" (get_options_liquidity)
research_stock_with_announcement(db, symbol, announcement_date, cls) ==
    LET symbol_upper == upper(symbol) IN
    IF db.fail = "universe" THEN Raised("universe", <<>>)
    ELSE IF symbol_upper \notin get_fno_symbols
    THEN Returned(AnnouncementOnly(symbol_upper, announcement_date, cls,
                      "Stock not in FNO universe", 30,
                      "Stock not in FNO universe - options trading not available"), <<>>)
    ELSE IF db.fail = "score" THEN Raised("score", << <<"score", announcement_date>> >>)
    ELSE
    LET tech == TechnicalsFrom(db, announcement_date, 0)
        metrics == tech.metrics
        scoreLog == [i \in 1..Len(tech.tried) |-> <<"score", tech.tried[i]>>]
    IN
    IF ~metrics.present
    THEN Returned(AnnouncementOnly(symbol_upper, announcement_date, cls,
                      "No technical data available",
                      IF cls.confidence = "high" THEN 50 ELSE 30,
                      "No technical data available - recommendation based on announcement only"),
                  scoreLog)
    ELSE IF db.fail = "liquidity"
    THEN Raised("liquidity", scoreLog \o << <<"liquidity", announcement_date, 100>> >>)
    ELSE
    LET dates == IF tech.used_date # announcement_date
                 THEN <<announcement_date, tech.used_date>> ELSE <<announcement_date>>
        liq == LiquidityFrom(db, dates)
        liquidity == liq.liquidity
        liqLog == [i \in 1..Len(liq.tried) |-> <<"liquidity", liq.tried[i][1], liq.tried[i][2]>>]
        ds == classify_direction_and_strategy(metrics)
        direction == ds[1]
        announcement_direction == Get(cls, "ai_direction", "neutral")
        reaction_window == Get(cls, "reaction_window", "next_day")
        ann_confidence == Get(cls, "confidence", "low")
        final_direction == FinalDirection(announcement_direction, direction)
        confidence_score == ConfidenceScore(announcement_direction, direction, ann_confidence, metrics)
    IN Returned(
        [symbol |-> symbol_upper,
         announcement_date |-> announcement_date,
         announcement |-> [headline |-> Get(cls, "headline", ""),
                           event_type |-> cls.event_type,
                           direction |-> announcement_direction,
                           reaction_window |-> reaction_window,
                           confidence |-> ann_confidence,
                           explanation |-> Get(cls, "explanation", "")],
         technicals |-> [direction |-> direction, strategy_hint |-> ds[2], present |-> TRUE,
                         daily_return |-> metrics.ret, vol_spike |-> metrics.vol_spike,
                         atr_pct |-> metrics.atr_pct, gap_pct |-> metrics.gap_pct,
                         spot_price |-> liquidity.spot],
         options_liquidity |-> [total_oi |-> liquidity.total_oi,
                                total_volume |-> liquidity.total_volume,
                                expiry |-> liquidity.expiry],
         final_recommendation |->
             [direction |-> final_direction,
              confidence_score |-> confidence_score,
              trade_ready |-> TradeReady(confidence_score, liquidity),
              suggested_strategy |->
                  generate_strategy_recommendation(final_direction, metrics, reaction_window)],
         note |-> Absent],
        scoreLog \o liqLog)

(***************************************************************************)
(* Announcement text.  str.lower() and the substring test `kw in text`,    *)
(* over the headlines and categories the model uses: Substrings(t) is the  *)
(* set of the source's keywords and category phrases that occur in t.      *)
(***************************************************************************)
lower(t) == CASE t = "Q2 Results" -> "q2 results"
              [] t = "Order win" -> "order win"
              [] t = "Board meeting notice" -> "board meeting notice"
              [] t = "AGM notice" -> "agm notice"
              [] t = "SEBI penalty" -> "sebi penalty"
              [] t = "Dividend declared" -> "dividend declared"
              [] t = "Earnings call" -> "earnings call"
              [] t = "Result" -> "result"
              [] t = "Board Meeting" -> "board meeting"
              [] t = "Corp. Action" -> "corp. action"
              [] t = "Company Update" -> "company update"
              [] OTHER -> t

Substrings(t) == CASE t = "q2 results" -> {"q2", "result"}
                   [] t = "order win" -> {"order", "win"}
                   [] t = "board meeting notice" -> {"board", "board meeting"}
                   [] t = "sebi penalty" -> {"sebi", "penalty"}
                   [] t = "dividend declared" -> {"dividend"}
                   [] t = "earnings call" -> {"earnings"}
                   [] t = "result" -> {"result"}
                   [] t = "board meeting" -> {"board", "board meeting"}
                   [] t = "corp. action" -> {"corp. action"}
                   [] OTHER -> {}

NoCategory == ""           \* category None or empty

\* f"{headline} {category}": what occurs in either part (no keyword spans the join
\* of the texts used here)
Combined(ann) == Substrings(lower(ann.headline)) \cup Substrings(lower(ann.category))

HIGH_IMPACT_KEYWORDS ==
    {"result", "quarter", "q1", "q2", "q3", "q4", "annual", "financial",
     "earnings", "profit", "revenue", "loss", "guidance", "outlook",
     "order", "contract", "tender", "award", "loi", "mou", "agreement",
     "deal", "partnership", "win", "bagged", "received",
     "merger", "acquisition", "takeover", "buyback", "dividend",
     "bonus", "split", "demerger", "amalgamation",
     "fund raising", "qip", "fpo", "rights issue", "preferential",
     "private placement", "ipo", "offer",
     "sebi", "regulatory", "investigation", "penalty", "fine",
     "court", "litigation", "settlement", "approval", "license",
     "expansion", "capacity", "plant", "facility", "project",
     "commissioning", "launch", "new product", "breakthrough",
     "ceo", "md", "director", "resignation", "appointment",
     "board", "management"}

Announcement(sym, head, cat, d) ==
    [symbol |-> sym, headline |-> head, category |-> cat, event_date |-> d,
     classification |-> EmptyClassification]

\* an announcement as scraped: without the classification the filter attaches
Bare(ann) == [ann EXCEPT !.classification = EmptyClassification]

BareSeq(anns) == [i \in 1..Len(anns) |-> Bare(anns[i])]

(***************************************************************************)
(* deduplicate_announcements_by_symbol_pre_classification (Pass A).        *)
(***************************************************************************)
\* lines 437-464: the keyword score of one announcement
PreClassificationScore(ann) ==
    LET combined == Combined(ann)
        category == Substrings(lower(ann.category))
    IN (IF combined \cap {"result", "quarter", "q1", "q2", "q3", "q4", "earnings", "financial"} # {}
        THEN 100 ELSE 0)
     + (IF combined \cap {"order", "contract", "tender", "award", "loi", "mou", "win", "bagged"} # {}
        THEN 80 ELSE 0)
     + (IF combined \cap {"merger", "acquisition", "buyback", "dividend", "bonus", "split"} # {}
        THEN 60 ELSE 0)
     + (IF combined \cap {"fund raising", "qip", "fpo", "rights issue", "preferential"} # {}
        THEN 50 ELSE 0)
     + (IF "result" \in category THEN 50
        ELSE IF "corp. action" \in category \/ "corporate action" \in category THEN 40
        ELSE IF "board meeting" \in category THEN 10
        ELSE 0)

\* lines 414-422: by_symbol's keys in insertion order
RECURSIVE SymbolKeys(_, _)
SymbolKeys(anns, seen) ==
    IF anns = <<>> THEN <<>>
    ELSE LET symbol == Head(anns).symbol IN
         IF symbol = NoSymbol \/ upper(symbol) \in seen
         THEN SymbolKeys(Tail(anns), seen)
         ELSE <<upper(symbol)>> \o SymbolKeys(Tail(anns), seen \cup {upper(symbol)})

\* by_symbol[key]: the positions of that symbol's announcements, in input order
RECURSIVE GroupOf(_, _, _)
GroupOf(anns, key, i) ==
    IF i > Len(anns) THEN <<>>
    ELSE IF anns[i].symbol # NoSymbol /\ upper(anns[i].symbol) = key
    THEN <<i>> \o GroupOf(anns, key, i + 1)
    ELSE GroupOf(anns, key, i + 1)

\* BestPre with `>=` for `>`: a later announcement of equal score replaces the best
RECURSIVE BestPreLastWins(_, _, _, _)
BestPreLastWins(anns, group, best, best_score) ==
    IF group = <<>> THEN best
    ELSE LET i == Head(group)
             score == PreClassificationScore(anns[i])
         IN IF score >= best_score
            THEN BestPreLastWins(anns, Tail(group), i, score)
            ELSE BestPreLastWins(anns, Tail(group), best, best_score)

\* lines 433-468: best_score starts at -1 and only a strictly higher score replaces the best
RECURSIVE BestPre(_, _, _, _)
BestPre(anns, group, best, best_score) ==
    IF group = <<>> THEN best
    ELSE LET i == Head(group)
             score == PreClassificationScore(anns[i])
         IN IF score > best_score
            THEN BestPre(anns, Tail(group), i, score)
            ELSE BestPre(anns, Tail(group), best, best_score)

\* the position kept for one symbol (lines 428-430: a single announcement is kept as is)
KeptPre(anns, key) ==
    LET group == GroupOf(anns, key, 1)
    IN IF Len(group) = 1 THEN group[1] ELSE BestPre(anns, group, 0, -1)

\* PreClassificationKept keeping every announcement that has a symbol
PreClassificationKeptAll(anns) ==
    SelectSeq([i \in 1..Len(anns) |-> i], LAMBDA i : anns[i].symbol # NoSymbol)

\* the positions of the input that the function returns, in its output order
PreClassificationKept(anns) ==
    LET keys == SymbolKeys(anns, {})
    IN [k \in 1..Len(keys) |-> KeptPre(anns, keys[k])]

deduplicate_announcements_by_symbol_pre_classification(anns) ==
    LET kept == PreClassificationKept(anns)
    IN [k \in 1..Len(kept) |-> anns[kept[k]]]

(***************************************************************************)
(* pre_filter_high_impact_announcements (Pass B).                          *)
(***************************************************************************)
\* lines 128-135: the weight of one matched keyword
KeywordWeight(keyword) ==
    IF keyword \in {"result", "quarter", "q1", "q2", "q3", "q4", "order", "contract", "tender", "award"}
    THEN 3
    ELSE IF keyword \in {"merger", "acquisition", "fund raising", "qip", "buyback", "dividend"}
    THEN 2
    ELSE 1

RECURSIVE WeightSum(_)
WeightSum(keywords) ==
    IF keywords = {} THEN 0
    ELSE LET kw == CHOOSE k \in keywords : TRUE
         IN KeywordWeight(kw) + WeightSum(keywords \ {kw})

\* lines 117-143
RelevanceScore(ann) ==
    LET category == Substrings(lower(ann.category))
    IN WeightSum(HIGH_IMPACT_KEYWORDS \cap Combined(ann))
     + (IF "result" \in category THEN 5
        ELSE IF "corp. action" \in category \/ "corporate action" \in category THEN 3
        ELSE IF "board meeting" \in category THEN 2
        ELSE 0)

\* InsertByScore putting an element before the ones of equal score
RECURSIVE InsertByScoreTiesReversed(_, _, _)
InsertByScoreTiesReversed(sorted, x, anns) ==
    IF sorted = <<>> THEN <<x>>
    ELSE IF RelevanceScore(anns[Head(sorted)]) > RelevanceScore(anns[x])
    THEN <<Head(sorted)>> \o InsertByScoreTiesReversed(Tail(sorted), x, anns)
    ELSE <<x>> \o sorted

\* list.sort(key=score, reverse=True) is stable: an element goes after the ones that
\* score at least as much
RECURSIVE InsertByScore(_, _, _)
InsertByScore(sorted, x, anns) ==
    IF sorted = <<>> THEN <<x>>
    ELSE IF RelevanceScore(anns[Head(sorted)]) >= RelevanceScore(anns[x])
    THEN <<Head(sorted)>> \o InsertByScore(Tail(sorted), x, anns)
    ELSE <<x>> \o sorted

RECURSIVE SortByScore(_, _, _)
SortByScore(positions, sorted, anns) ==
    IF positions = <<>> THEN sorted
    ELSE SortByScore(Tail(positions), InsertByScore(sorted, Head(positions), anns), anns)

\* lines 146-147: only positive scores are kept
RECURSIVE Relevant(_, _)
Relevant(anns, i) ==
    IF i > Len(anns) THEN <<>>
    ELSE IF RelevanceScore(anns[i]) > 0 THEN <<i>> \o Relevant(anns, i + 1)
    ELSE Relevant(anns, i + 1)

\* the positions of the input that the pre-filter returns, in its output order
PreFilterKept(anns, max_results) ==
    LET sorted == SortByScore(Relevant(anns, 1), <<>>, anns)
    IN SubSeq(sorted, 1, Min2(max_results, Len(sorted)))

pre_filter_high_impact_announcements(anns, max_results) ==
    LET kept == PreFilterKept(anns, max_results)
    IN [k \in 1..Len(kept) |-> anns[kept[k]]]

(***************************************************************************)
(* classify_announcement and filter_high_volatility_announcements          *)
(* (Passes C and D).  The language model is a collaborator: each           *)
(* invocation of the chain either returns a classification or raises.      *)
(***************************************************************************)
LLMReturns(cls) == [raises |-> "none", value |-> cls]

LLMRaises(e) == [raises |-> e, value |-> EmptyClassification]

\* lines 191-212: any exception of the chain becomes the neutral, low default, whose
\* explanation is f"Classification error: {str(e)}"
classify_announcement(outcome) ==
    IF outcome.raises = "none" THEN outcome.value
    ELSE Classification("neutral", "neutral", "1_3_days", "low",
                        "Classification error: " \o outcome.raises)

\* line 234 and `confidence_levels.get(..., default)`
ConfidenceLevel(confidence, default) ==
    CASE confidence = "low" -> 1
      [] confidence = "medium" -> 2
      [] confidence = "high" -> 3
      [] OTHER -> default

\* PassesFilter without the confidence test
PassesFilterAnyConfidence(classification, min_level) ==
    Get(classification, "ai_direction", "neutral") # "neutral"

\* PassesFilter without the direction test
PassesFilterConfidenceOnly(classification, min_level) ==
    ConfidenceLevel(Get(classification, "confidence", "low"), 1) >= min_level

\* line 324
PassesFilter(classification, min_level) ==
    /\ ConfidenceLevel(Get(classification, "confidence", "low"), 1) >= min_level
    /\ Get(classification, "ai_direction", "neutral") # "neutral"

\* lines 276-281 and 298-303: what a try block around classify_announcement sees.
\* classify_announcement returns a dict whatever the chain does, so nothing is raised.
TryClassify(outcome) == [raised |-> "none", value |-> classify_announcement(outcome)]

\* line 295: the message contains "429" or, in any case, "rate limit"
IsRateLimitError(e) == e \in {"429 rate limit"}

\* FilterLoop giving up the rest of the batch at the first failed chain invocation
RECURSIVE FilterLoopAbortOnFailure(_, _, _, _)
FilterLoopAbortOnFailure(pre, k, outcomes, min_level) ==
    IF k > Len(pre) THEN [high_vol |-> <<>>, processed |-> <<>>, log |-> <<>>]
    ELSE LET ann == pre[k]
             rest == IF outcomes[k].raises # "none"
                     THEN [high_vol |-> <<>>, processed |-> SubSeq(pre, k + 1, Len(pre)),
                           log |-> <<>>]
                     ELSE FilterLoopAbortOnFailure(pre, k + 1, outcomes, min_level)
         IN IF ann.symbol = NoSymbol \/ ann.headline = ""
            THEN [rest EXCEPT !.processed = <<ann>> \o @]
            ELSE LET classification ==
                         [classify_announcement(outcomes[k]) EXCEPT !.headline = ann.headline]
                     done == [ann EXCEPT !.classification = classification]
                     events == (IF k > 1 THEN << [op |-> "sleep", symbol |-> "", headline |-> ""] >>
                                ELSE <<>>)
                               \o << [op |-> "classify", symbol |-> ann.symbol,
                                      headline |-> ann.headline] >>
                 IN [high_vol |-> (IF PassesFilter(classification, min_level)
                                   THEN <<done>> ELSE <<>>) \o rest.high_vol,
                     processed |-> <<done>> \o rest.processed,
                     log |-> events \o rest.log]

\* lines 257-325: the loop over the pre-filtered announcements from position k on;
\* outcomes[k] is what the chain does when invoked for position k.
\* processed: the pre-filtered announcements with `ann["classification"]` set;
\* log: the sleeps and chain invocations in the order made ("sleep" is the delay
\* between calls of lines 271-272, "backoff" the longer wait of line 297).
RECURSIVE FilterLoop(_, _, _, _)
FilterLoop(pre, k, outcomes, min_level) ==
    IF k > Len(pre) THEN [high_vol |-> <<>>, processed |-> <<>>, log |-> <<>>]
    ELSE LET ann == pre[k]
             rest == FilterLoop(pre, k + 1, outcomes, min_level)
         IN IF ann.symbol = NoSymbol \/ ann.headline = ""
            THEN [rest EXCEPT !.processed = <<ann>> \o @]
            ELSE LET invocation == [op |-> "classify", symbol |-> ann.symbol,
                                    headline |-> ann.headline]
                     first == TryClassify(outcomes[k])
                     retried == first.raised # "none" /\ IsRateLimitError(first.raised)
                     last == IF retried THEN TryClassify(outcomes[k]) ELSE first
                     events == (IF k > 1 THEN << [op |-> "sleep", symbol |-> "", headline |-> ""] >>
                                ELSE <<>>)
                               \o <<invocation>>
                               \o (IF retried
                                   THEN << [op |-> "backoff", symbol |-> ann.symbol,
                                            headline |-> ann.headline], invocation >>
                                   ELSE <<>>)
                     classification == [last.value EXCEPT !.headline = ann.headline]
                     done == [ann EXCEPT !.classification = classification]
                 IN IF last.raised # "none"
                    THEN [rest EXCEPT !.processed = <<ann>> \o @, !.log = events \o @]
                    ELSE [high_vol |-> (IF PassesFilter(classification, min_level)
                                        THEN <<done>> ELSE <<>>) \o rest.high_vol,
                          processed |-> <<done>> \o rest.processed,
                          log |-> events \o rest.log]

filter_high_volatility_announcements(anns, min_confidence, max_classifications, outcomes) ==
    LET min_level == ConfidenceLevel(min_confidence, 2)
        pre_filtered == pre_filter_high_impact_announcements(anns, max_classifications)
    IN FilterLoop(pre_filtered, 1, outcomes, min_level)

(***************************************************************************)
(* deduplicate_announcements_by_symbol (Pass E).                           *)
(***************************************************************************)
\* lines 526-557: keywords, event type, confidence and direction
PostClassificationScore(ann) ==
    LET combined == Combined(ann)
        classification == ann.classification
        event_type == Get(classification, "event_type", "")
        confidence == Get(classification, "confidence", "low")
    IN (IF combined \cap {"result", "quarter", "q1", "q2", "q3", "q4", "earnings", "financial"} # {}
        THEN 100 ELSE 0)
     + (IF combined \cap {"order", "contract", "tender", "award", "loi", "mou", "win", "bagged"} # {}
        THEN 80 ELSE 0)
     + (IF event_type \in {"results_positive", "results_negative"} THEN 50
        ELSE IF event_type \in {"order_win", "order_loss"} THEN 40 ELSE 0)
     + (IF confidence = "high" THEN 20 ELSE IF confidence = "medium" THEN 10 ELSE 0)
     + (IF Get(classification, "ai_direction", "neutral") # "neutral" THEN 15 ELSE 0)

\* lines 522-561
RECURSIVE BestPost(_, _, _, _)
BestPost(anns, group, best, best_score) ==
    IF group = <<>> THEN best
    ELSE LET i == Head(group)
             score == PostClassificationScore(anns[i])
         IN IF score > best_score
            THEN BestPost(anns, Tail(group), i, score)
            ELSE BestPost(anns, Tail(group), best, best_score)

deduplicate_announcements_by_symbol(anns) ==
    LET keys == SymbolKeys(anns, {})
        kept == [k \in 1..Len(keys) |->
                    LET group == GroupOf(anns, keys[k], 1)
                    IN IF Len(group) = 1 THEN group[1] ELSE BestPost(anns, group, 0, -1)]
    IN [k \in 1..Len(kept) |-> anns[kept[k]]]

(***************************************************************************)
(* research_multiple_stocks (stock_researcher.py).  dbs[k] is the market   *)
(* data of the symbol of announcement k.                                   *)
(***************************************************************************)
\* lines 299-314: the results in announcement order; an exception skips the announcement
\* ResearchEach giving up on the rest of the batch at the first failure
RECURSIVE ResearchEachUntilFailure(_, _, _)
ResearchEachUntilFailure(dbs, announcements, k) ==
    IF k > Len(announcements) THEN <<>>
    ELSE LET ann == announcements[k]
             rest == ResearchEachUntilFailure(dbs, announcements, k + 1)
         IN IF ann.symbol = NoSymbol \/ ann.event_date = NoDate THEN rest
            ELSE LET research == research_stock_with_announcement(dbs[k], ann.symbol,
                                     ann.event_date, ann.classification)
                 IN IF research.raised THEN <<>> ELSE <<research.value>> \o rest

RECURSIVE ResearchEach(_, _, _)
ResearchEach(dbs, announcements, k) ==
    IF k > Len(announcements) THEN <<>>
    ELSE LET ann == announcements[k]
             rest == ResearchEach(dbs, announcements, k + 1)
         IN IF ann.symbol = NoSymbol \/ ann.event_date = NoDate THEN rest
            ELSE LET research == research_stock_with_announcement(dbs[k], ann.symbol,
                                     ann.event_date, ann.classification)
                 IN IF research.raised THEN rest ELSE <<research.value>> \o rest

\* the invocations of research_stock_with_announcement, in order
RECURSIVE ResearchCalls(_, _)
ResearchCalls(announcements, k) ==
    IF k > Len(announcements) THEN <<>>
    ELSE IF announcements[k].symbol = NoSymbol \/ announcements[k].event_date = NoDate
    THEN ResearchCalls(announcements, k + 1)
    ELSE << [symbol |-> announcements[k].symbol, event_date |-> announcements[k].event_date] >>
         \o ResearchCalls(announcements, k + 1)

\* lines 317-320: results.sort(key=confidence_score, reverse=True), a stable sort
RECURSIVE InsertByConfidence(_, _)
InsertByConfidence(sorted, r) ==
    IF sorted = <<>> THEN <<r>>
    ELSE IF Head(sorted).final_recommendation.confidence_score >= r.final_recommendation.confidence_score
    THEN <<Head(sorted)>> \o InsertByConfidence(Tail(sorted), r)
    ELSE <<r>> \o sorted

RECURSIVE SortByConfidence(_, _)
SortByConfidence(results, sorted) ==
    IF results = <<>> THEN sorted
    ELSE SortByConfidence(Tail(results), InsertByConfidence(sorted, Head(results)))

research_multiple_stocks(dbs, announcements) ==
    SortByConfidence(ResearchEach(dbs, announcements, 1), <<>>)

(***************************************************************************)
(* Values the variables of an operation hold while another one runs.       *)
(***************************************************************************)
NoCall == [fn |-> "none"]

NoReturn == [raised |-> FALSE]

NoState == [step |-> "none"]

NoResult == [returned |-> FALSE]

(***************************************************************************)
(* The announcement workflow (announcement_workflow.py): the LangGraph     *)
(* nodes scrape -> classify -> research -> END, joined by unconditional    *)
(* edges, and run_daily_announcement_pipeline around them.                 *)
(***************************************************************************)
\* lines 287-294
InitialState ==
    [announcements |-> <<>>, high_vol_announcements |-> <<>>, research_results |-> <<>>,
     errors |-> <<>>, step |-> "started"]

\* lines 89-93
ScrapeSucceeded(st, announcements) ==
    [st EXCEPT !.announcements = announcements, !.step = "scraped"]

\* lines 95-101
ScrapeFailed(st) ==
    [st EXCEPT !.errors = Append(@, "Scraping error"), !.step = "error"]

\* ClassifyNothing treating an empty window as a failed stage
ClassifyNothingAsError(st) ==
    [st EXCEPT !.high_vol_announcements = <<>>,
               !.errors = Append(@, "No announcements"), !.step = "error"]

\* lines 110-116
ClassifyNothing(st) ==
    [st EXCEPT !.high_vol_announcements = <<>>, !.step = "classified"]

\* lines 136-140; announcements: the state's list, whose dicts the filter has written
\* `classification` into
ClassifySucceeded(st, announcements, high_vol) ==
    [st EXCEPT !.announcements = announcements, !.high_vol_announcements = high_vol,
               !.step = "classified"]

\* ClassifyFailed storing the announcements that had passed the filter
ClassifyFailedKeepingHighVol(st, announcements, high_vol) ==
    [st EXCEPT !.announcements = announcements, !.high_vol_announcements = high_vol,
               !.errors = Append(@, "Classification error"), !.step = "error"]

\* ClassifyFailed resetting the scraped announcements
ClassifyFailedDroppingAnnouncements(st, announcements, high_vol) ==
    [st EXCEPT !.announcements = <<>>,
               !.errors = Append(@, "Classification error"), !.step = "error"]

\* lines 142-148
ClassifyFailed(st, announcements, high_vol) ==
    [st EXCEPT !.announcements = announcements,
               !.errors = Append(@, "Classification error"), !.step = "error"]

\* lines 164-168
ResearchNothing(st) ==
    [st EXCEPT !.research_results = <<>>, !.step = "completed"]

\* lines 214-218
ResearchSucceeded(st, research_results) ==
    [st EXCEPT !.research_results = research_results, !.step = "completed"]

\* lines 220-226
ResearchFailed(st) ==
    [st EXCEPT !.errors = Append(@, "Research error"), !.step = "error"]

\* TradeRecommendations keeping every result whose trade_ready is not False
TradeRecommendationsNotFalse(research_results) ==
    SelectSeq(research_results, LAMBDA r : r.final_recommendation.trade_ready # PyBool(FALSE))

\* lines 302-305: the results whose trade_ready is truthy
TradeRecommendations(research_results) ==
    SelectSeq(research_results, LAMBDA r : Truthy(r.final_recommendation.trade_ready))

\* lines 301-320
PipelineResult(final_state) ==
    LET research_results == final_state.research_results
        trade_recommendations == TradeRecommendations(research_results)
    IN [returned |-> TRUE,
        announcements |-> final_state.announcements,
        high_vol_announcements |-> final_state.high_vol_announcements,
        research_results |-> research_results,
        trade_recommendations |-> trade_recommendations,
        errors |-> final_state.errors,
        summary |-> [total_announcements |-> Len(final_state.announcements),
                     high_vol_count |-> Len(final_state.high_vol_announcements),
                     researched_count |-> Len(research_results),
                     trade_ready_count |-> Len(trade_recommendations)]]

(***************************************************************************)
(* What the collaborators of a pipeline run may do.                        *)
(***************************************************************************)
\* the events the scraper leaves in the window: distinct (content_hash is unique),
\* ordered by event_date descending (lines 50-56)
ScrapeCatalogue ==
    { Announcement("abc", "Q2 Results", "Result", AnnDate),
      Announcement("ABC", "Order win", "Company Update", AnnDate),
      Announcement("XYZ", "AGM notice", NoCategory, AnnDate),
      Announcement("XYZ", "SEBI penalty", NoCategory, AnnDate - 1),
      Announcement("SME", "Dividend declared", "Corp. Action", AnnDate - 1),
      Announcement(NoSymbol, "Q2 Results", "Result", AnnDate - 1) }

ScrapeOutputs ==
    { anns \in SeqsUpTo(ScrapeCatalogue, MaxAnns) :
        \A i, j \in 1..Len(anns) :
            i < j => anns[i] # anns[j] /\ anns[i].event_date >= anns[j].event_date }

PipelineOutcomes ==
    { LLMReturns(Classification("results_positive", "bullish", "same_day", "high", "llm")),
      LLMReturns(Classification("order_loss", "bearish", "next_day", "medium", "llm")),
      LLMReturns(Classification("fund_raise", "bullish", "1_3_days", "low", "llm")),
      LLMReturns(Classification("neutral", "neutral", "1_3_days", "high", "llm")),
      LLMReturns(Classification("order_win", "bullish", "same_day", "HIGH", "llm")),
      LLMRaises("429 rate limit") }

PipelineDbs ==
    { [prices |-> EmptyTable, fail |-> "none"],
      [prices |-> [EmptyTable EXCEPT ![AnnDate - 1] = PriceRow(Metrics(50, 2000, 0, 20), "near")],
       fail |-> "none"],
      [prices |-> [EmptyTable EXCEPT ![AnnDate] = PriceRow(Metrics(5, 1000, 0, 10), "none")],
       fail |-> "none"],
      [prices |-> [EmptyTable EXCEPT ![AnnDate - 1] = PriceRow(Metrics(-40, 1500, 0, 60), "volonly")],
       fail |-> "none"],
      [prices |-> EmptyTable, fail |-> "score"] }

(***************************************************************************)
(* The pipeline run.                                                       *)
(***************************************************************************)
InitPipeline ==
    /\ pc = "scrape"
    /\ call \in { [fn |-> "run_daily_announcement_pipeline", target_date |-> AnnDate,
                   max_classifications |-> n] : n \in {1, 20} }
    /\ state = InitialState
    /\ result = NoResult
    /\ ret = NoReturn
    /\ llm_calls = <<>>
    /\ research_calls = <<>>
    /\ scraped = <<>>
    /\ classified = <<>>
    /\ bse_events = <<>>
    /\ filter_output = <<>>

\* scrape_announcements, lines 34-101
Scrape ==
    /\ pc = "scrape"
    /\ \/ \E announcements \in ScrapeOutputs :
            /\ state' = ScrapeSucceeded(state, announcements)
            /\ scraped' = announcements
       \/ /\ state' = ScrapeFailed(state)
          /\ UNCHANGED scraped
    /\ pc' = "classify"
    /\ UNCHANGED <<result, llm_calls, research_calls, classified, call, ret, bse_events, filter_output>>

\* the state's announcements after the filter wrote `classification` into the dicts it
\* processed: kept and pre are positions (of the input, of the deduplicated list)
Written(announcements, kept, pre, processed) ==
    [i \in 1..Len(announcements) |->
        IF \E k \in 1..Len(pre) : kept[pre[k]] = i
        THEN processed[CHOOSE k \in 1..Len(pre) : kept[pre[k]] = i]
        ELSE announcements[i]]

\* classify_announcements, lines 104-148
Classify ==
    /\ pc = "classify"
    /\ IF state.announcements = <<>>
       THEN /\ state' = ClassifyNothing(state)
            /\ classified' = <<>>
            /\ UNCHANGED <<llm_calls, filter_output>>
       ELSE \/ /\ state' = ClassifyFailed(state, state.announcements, <<>>)
               /\ UNCHANGED <<llm_calls, classified, filter_output>>
            \/ LET kept == PreClassificationKept(state.announcements)
                   deduplicated == deduplicate_announcements_by_symbol_pre_classification(
                                       state.announcements)
                   pre == PreFilterKept(deduplicated, call.max_classifications)
               IN \E outcomes \in [1..Len(pre) -> PipelineOutcomes] :
                    LET f == filter_high_volatility_announcements(deduplicated, "medium",
                                 call.max_classifications, outcomes)
                        high_vol == deduplicate_announcements_by_symbol(f.high_vol)
                        written == Written(state.announcements, kept, pre, f.processed)
                    IN /\ llm_calls' = f.log
                       /\ filter_output' = f.high_vol
                       /\ \/ /\ state' = ClassifySucceeded(state, written, high_vol)
                             /\ classified' = high_vol
                          \/ /\ state' = ClassifyFailed(state, written, high_vol)
                             /\ UNCHANGED classified
    /\ pc' = "research"
    /\ UNCHANGED <<result, research_calls, scraped, call, ret, bse_events>>

\* research_stocks, lines 151-226
ResearchStocks ==
    /\ pc = "research"
    /\ IF state.high_vol_announcements = <<>>
       THEN /\ state' = ResearchNothing(state)
            /\ UNCHANGED research_calls
       ELSE \E dbs \in [1..Len(state.high_vol_announcements) -> PipelineDbs] :
              /\ research_calls' = ResearchCalls(state.high_vol_announcements, 1)
              /\ \/ state' = ResearchSucceeded(state,
                                 research_multiple_stocks(dbs, state.high_vol_announcements))
                 \/ state' = ResearchFailed(state)
    /\ pc' = "end"
    /\ UNCHANGED <<result, llm_calls, scraped, classified, call, ret, bse_events, filter_output>>

\* run_daily_announcement_pipeline, lines 297-320
Return ==
    /\ pc = "end"
    /\ result' = PipelineResult(state)
    /\ pc' = "returned"
    /\ UNCHANGED <<state, llm_calls, research_calls, scraped, classified, call, ret, bse_events, filter_output>>

NextPipeline == Scrape \/ Classify \/ ResearchStocks \/ Return

SpecPipeline == InitPipeline /\ [][NextPipeline]_vars

(***************************************************************************)
(* Properties of the pipeline run.                                         *)
(***************************************************************************)
Failed(stage) == \E i \in 1..Len(state.errors) : state.errors[i] = stage

ClassifierInvoked == \E i \in 1..Len(llm_calls) : llm_calls[i].op = "classify"

PipelineReturned == pc = "returned" /\ result.returned

\* the moves of step the state diagram allows
StepMove(from, to) ==
    \/ to = from
    \/ from = "started" /\ to \in {"scraped", "error"}
    \/ from = "scraped" /\ to \in {"classified", "error"}
    \/ from = "classified" /\ to \in {"completed", "error"}

\* the announcements at two positions of a list are of one symbol, compared upper-cased
SameSymbol(anns, i, j) ==
    /\ anns[i].symbol # NoSymbol
    /\ anns[j].symbol # NoSymbol
    /\ upper(anns[i].symbol) = upper(anns[j].symbol)

\* C27: within the classify stage the list handed to the final de-duplication never holds
\* two announcements of one upper-cased symbol, so that pass returns its input unchanged
\* and high_vol_announcements never holds two items for one symbol.
C27_PassEInputHasDistinctSymbols ==
    /\ \A i, j \in 1..Len(filter_output) : SameSymbol(filter_output, i, j) => i = j
    /\ deduplicate_announcements_by_symbol(filter_output) = filter_output
    /\ (pc \notin {"scrape", "classify"} /\ ~Failed("Classification error")) =>
          state.high_vol_announcements = filter_output
    /\ \A i, j \in 1..Len(state.high_vol_announcements) :
          SameSymbol(state.high_vol_announcements, i, j) => i = j

\* the scrape produced two announcements of one symbol and the classify stage handed one
\* qualifying announcement of that symbol to the final de-duplication
C27_Witness ==
    /\ \E i, j \in 1..Len(scraped) : i # j /\ SameSymbol(scraped, i, j)
    /\ state.step = "classified"
    /\ Len(filter_output) >= 1
    /\ state.high_vol_announcements = filter_output

\* C28: in a pipeline run, whose filter runs at min_confidence medium, every research
\* result with technicals resolved has confidence_score >= 60, so it is trade-ready exactly
\* when a liquidity snapshot was resolved with total_oi > 0; a result with
\* confidence_score < 60 is a non-F&O or a no-technicals one.
C28_PipelineResultsClearConfidenceGate ==
    \A k \in 1..Len(state.research_results) :
        LET r == state.research_results[k] IN
        /\ r.technicals.present =>
              /\ r.final_recommendation.confidence_score >= 60
              /\ Truthy(r.final_recommendation.trade_ready) <=> r.options_liquidity.total_oi > 0
        /\ r.final_recommendation.confidence_score < 60 =>
              /\ ~r.technicals.present
              /\ r.note \in {"Stock not in FNO universe - options trading not available",
                              "No technical data available - recommendation based on announcement only"}

\* a completed run researched a medium-confidence announcement with technicals resolved
\* and open interest found, and the result is trade-ready
C28_Witness ==
    /\ state.step = "completed"
    /\ \E k \in 1..Len(state.research_results) :
          LET r == state.research_results[k] IN
          /\ r.technicals.present
          /\ r.announcement.confidence = "medium"
          /\ r.final_recommendation.trade_ready = PyBool(TRUE)

C3_ErrorIsAbsorbing == [][StepMove(state.step, state'.step)]_vars

\* C4: in a run where scrape fails neither the classifier nor the synthesizer is invoked;
\* in a run where classify fails the synthesizer is not invoked.
C4_FailedStageStopsLaterWork ==
    /\ Failed("Scraping error") => ~ClassifierInvoked /\ research_calls = <<>>
    /\ Failed("Classification error") => research_calls = <<>>

\* a finished run whose classify stage failed after the classifier had been called
C4_Witness ==
    /\ PipelineReturned
    /\ Failed("Classification error")
    /\ ClassifierInvoked
    /\ research_calls = <<>>

\* C5: when classify fails after scrape succeeded the result still holds every scraped
\* announcement (total_announcements = their number) and a non-empty errors list; when
\* research fails high_vol_announcements is as classify produced it and errors is non-empty.
C5_PartialOutputsSurvive ==
    PipelineReturned =>
        /\ Failed("Classification error") =>
              /\ BareSeq(result.announcements) = scraped
              /\ result.summary.total_announcements = Len(scraped)
              /\ result.errors # <<>>
        /\ Failed("Research error") =>
              /\ result.high_vol_announcements = classified
              /\ result.errors # <<>>

\* a finished run whose research stage failed with two announcements to research
C5_Witness ==
    /\ PipelineReturned
    /\ Failed("Research error")
    /\ Len(result.high_vol_announcements) = 2
    /\ Len(result.announcements) = 2

\* C6: a run whose scrape succeeds with zero announcements ends with all four summary
\* counts 0, no trade recommendations and no errors, and invokes neither the classifier
\* nor the synthesizer.
C6_EmptyWindowRun ==
    (PipelineReturned /\ ~Failed("Scraping error") /\ scraped = <<>>) =>
        /\ result.summary = [total_announcements |-> 0, high_vol_count |-> 0,
                             researched_count |-> 0, trade_ready_count |-> 0]
        /\ result.trade_recommendations = <<>>
        /\ result.errors = <<>>
        /\ ~ClassifierInvoked
        /\ research_calls = <<>>

C6_Witness ==
    PipelineReturned /\ ~Failed("Scraping error") /\ scraped = <<>> /\ state.step = "completed"

PresentRows ==
    { PriceRow(Metrics(50, 2000, 0, 20), "near"), PriceRow(Metrics(50, 2000, 0, 20), "none"),
      PriceRow(Metrics(-40, 1500, 0, 60), "wide"), PriceRow(Metrics(-40, 1500, 0, 60), "volonly"),
      PriceRow(Metrics(5, 1000, 0, 10), "near"), PriceRow(Metrics(5, 1000, 0, 10), "none") }

\* price tables over the 6-day window with at most MaxPriceDays price rows
PriceTables ==
    UNION { { [d \in Window(AnnDate) |-> IF d \in D THEN f[d] ELSE NoRow] : f \in [D -> PresentRows] }
            : D \in { S \in SUBSET Window(AnnDate) : Cardinality(S) <= MaxPriceDays } }

WindowOf(conf) == CASE conf = "high" -> "same_day"
                    [] conf = "medium" -> "next_day"
                    [] OTHER -> "1_3_days"

ResearchClassifications ==
    { Classification("results_positive", dir, WindowOf(conf), conf, "llm")
        : dir \in Directions, conf \in Confidences }
    \cup {EmptyClassification}

ResearchCall(db, symbol, cls) ==
    [fn |-> "research_stock_with_announcement", db |-> db, symbol |-> symbol,
     announcement_date |-> AnnDate, classification |-> cls]

ResearchInputs ==
    { ResearchCall([prices |-> p, fail |-> "none"], "abc", cls)
        : p \in PriceTables, cls \in ResearchClassifications }
    \cup { ResearchCall([prices |-> EmptyTable, fail |-> "none"], "SME", cls)
        : cls \in ResearchClassifications }
    \cup { ResearchCall([prices |-> [EmptyTable EXCEPT ![AnnDate] = r], fail |-> f], sym,
                        Classification("order_win", "bullish", "next_day", "high", "llm"))
        : r \in PresentRows, f \in {"universe", "score", "liquidity"}, sym \in {"abc", "SME"} }

InitResearch ==
    /\ pc = "call"
    /\ call \in ResearchInputs
    /\ ret = NoReturn
    /\ state = NoState
    /\ result = NoResult
    /\ llm_calls = <<>>
    /\ research_calls = <<>>
    /\ scraped = <<>>
    /\ classified = <<>>
    /\ bse_events = <<>>
    /\ filter_output = <<>>

Research ==
    /\ pc = "call"
    /\ call.fn = "research_stock_with_announcement"
    /\ ret' = research_stock_with_announcement(call.db, call.symbol, call.announcement_date,
                                               call.classification)
    /\ pc' = "done"
    /\ UNCHANGED <<state, result, llm_calls, research_calls, scraped, classified, call, bse_events, filter_output>>

NextResearch == Research

SpecResearch == InitResearch /\ [][NextResearch]_vars

ResearchReturned ==
    pc = "done" /\ call.fn = "research_stock_with_announcement" /\ ~ret.raised

\* C1: in every ResearchResult returned by research_stock_with_announcement,
\* trade_ready true implies confidence_score >= 60 and options_liquidity.total_oi > 0.
C1_TradeReadyImpliesConfidentAndLiquid ==
    ResearchReturned =>
        (ret.value.final_recommendation.trade_ready = PyBool(TRUE) =>
            /\ ret.value.final_recommendation.confidence_score >= 60
            /\ ret.value.options_liquidity.total_oi > 0)

\* a full-path result that is trade-ready
C1_Witness ==
    /\ ResearchReturned
    /\ ret.value.technicals.present
    /\ ret.value.final_recommendation.trade_ready = PyBool(TRUE)

\* C2: in every ResearchResult returned, final_recommendation.trade_ready is the
\* boolean true or the boolean false, never None.
C2_TradeReadyIsBoolean ==
    ResearchReturned => ret.value.final_recommendation.trade_ready.type = "bool"

\* C15: with technicals resolved, the final direction is bullish when the announcement is
\* bullish and technicals are bullish or neutral, bearish when the announcement is bearish
\* and technicals are bearish or neutral, and neutral in every other combination of
\* (announcement direction, technical direction), in particular when the two are
\* opposite or the announcement is neutral.
C15_FinalDirectionTable ==
    (ResearchReturned /\ ret.value.technicals.present) =>
        LET a == ret.value.announcement.direction
            t == ret.value.technicals.direction
        IN /\ a \in Directions /\ t \in Directions
           /\ ret.value.final_recommendation.direction =
                 (IF a = "bullish" /\ t \in {"bullish", "neutral"} THEN "bullish"
                  ELSE IF a = "bearish" /\ t \in {"bearish", "neutral"} THEN "bearish"
                  ELSE "neutral")

\* a bullish announcement over bearish technicals: the final direction is neutral
C15_Witness ==
    /\ ResearchReturned
    /\ ret.value.technicals.present
    /\ ret.value.announcement.direction = "bullish"
    /\ ret.value.technicals.direction = "bearish"
    /\ ret.value.final_recommendation.direction = "neutral"

\* C16: with technicals resolved, confidence_score = 50 + (20 if the announcement
\* direction equals the technical direction and both are non-neutral) + (15 for
\* classifier confidence high, 10 for medium, 0 for low) + (10 if vol_spike > 1.5)
\* + (10 if |daily_return| > 0.03), clamped to [0, 100]; every returned confidence_score
\* lies in [0, 100].
C16_ConfidenceScoreFormula ==
    ResearchReturned =>
        LET r == ret.value
            score == r.final_recommendation.confidence_score
            sum == 50
                   + (IF r.announcement.direction = r.technicals.direction
                         /\ r.technicals.direction # "neutral" THEN 20 ELSE 0)
                   + (CASE r.announcement.confidence = "high" -> 15
                        [] r.announcement.confidence = "medium" -> 10
                        [] OTHER -> 0)
                   + (IF r.technicals.vol_spike > 1500 THEN 10 ELSE 0)
                   + (IF Abs(r.technicals.daily_return) > 30 THEN 10 ELSE 0)
        IN /\ score >= 0 /\ score <= 100
           /\ r.technicals.present =>
                 score = (IF sum > 100 THEN 100 ELSE IF sum < 0 THEN 0 ELSE sum)

\* high confidence, bullish on both sides, vol_spike 2.0, return 0.05: 105 clamped to 100
C16_Witness ==
    /\ ResearchReturned
    /\ ret.value.technicals.present
    /\ ret.value.announcement.confidence = "high"
    /\ ret.value.announcement.direction = "bullish"
    /\ ret.value.technicals.direction = "bullish"
    /\ ret.value.technicals.vol_spike = 2000
    /\ ret.value.technicals.daily_return = 50
    /\ ret.value.final_recommendation.confidence_score = 100

\* the dates at which the call asked for a FeatureRow, and the (date, band) pairs at
\* which it asked for liquidity, in the order asked
ScoreLookups ==
    LET q == SelectSeq(ret.lookups, LAMBDA p : p[1] = "score")
    IN [k \in 1..Len(q) |-> q[k][2]]

LiquidityLookups ==
    LET q == SelectSeq(ret.lookups, LAMBDA p : p[1] = "liquidity")
    IN [k \in 1..Len(q) |-> <<q[k][2], q[k][3]>>]

IsFnoCall == upper(call.symbol) \in get_fno_symbols

\* how many days before the announcement date the price rows of the window lie
RowDaysBack == { k \in 0..5 : call.db.prices[call.announcement_date - k].row }

\* the latest date of the window with a price row
TechnicalDate ==
    call.announcement_date - (CHOOSE k \in RowDaysBack : \A j \in RowDaysBack : k <= j)

\* C25: for an F&O symbol the call tries the announcement date and then each of the 5
\* preceding days in that order and uses the first date with a FeatureRow, making no
\* further attempt after a success; if all 6 attempts fail it returns the
\* announcement-only result with confidence_score 50 when the classifier confidence is
\* high and 30 otherwise, trade_ready false and zero liquidity.
C25_TechnicalsLatestOfSixDays ==
    (ResearchReturned /\ IsFnoCall) =>
        IF RowDaysBack = {}
        THEN /\ ScoreLookups = [k \in 1..6 |-> call.announcement_date - (k - 1)]
             /\ ~ret.value.technicals.present
             /\ ret.value.final_recommendation.confidence_score
                   = (IF call.classification.confidence = "high" THEN 50 ELSE 30)
             /\ ret.value.final_recommendation.trade_ready = PyBool(FALSE)
             /\ ret.value.options_liquidity = [total_oi |-> 0, total_volume |-> 0, expiry |-> 0]
             /\ LiquidityLookups = <<>>
        ELSE LET m == call.db.prices[TechnicalDate].metrics
             IN /\ ScoreLookups = [k \in 1..(call.announcement_date - TechnicalDate + 1)
                                     |-> call.announcement_date - (k - 1)]
                /\ ret.value.technicals.present
                /\ ret.value.technicals.daily_return = m.ret
                /\ ret.value.technicals.vol_spike = m.vol_spike
                /\ ret.value.technicals.atr_pct = m.atr_pct
                /\ ret.value.technicals.gap_pct = m.gap_pct

\* price rows two and four days before the announcement, with different features: three
\* dates are tried and the row two days back is used
C25_Witness ==
    /\ ResearchReturned /\ IsFnoCall
    /\ RowDaysBack = {2, 4}
    /\ call.db.prices[call.announcement_date - 2].metrics.ret
          # call.db.prices[call.announcement_date - 4].metrics.ret
    /\ Len(ScoreLookups) = 3
    /\ ret.value.technicals.daily_return = call.db.prices[call.announcement_date - 2].metrics.ret

\* C26: the liquidity lookups are made in the order (announcement date, band 0.1), then
\* (technical date, band 0.1), then (technical date, band 0.2), the technical date being
\* consulted only when it differs from the announcement date; the first non-empty
\* snapshot is used, no other (date, band) pair is consulted, and when all are empty the
\* liquidity fields are zero.
C26_LiquidityLookupOrder ==
    (ResearchReturned /\ IsFnoCall /\ RowDaysBack # {}) =>
        LET plan == IF TechnicalDate = call.announcement_date
                    THEN << <<call.announcement_date, 100>> >>
                    ELSE << <<call.announcement_date, 100>>, <<TechnicalDate, 100>>,
                            <<TechnicalDate, 200>> >>
            yielding == { n \in 1..Len(plan) :
                            get_options_liquidity(call.db, plan[n][1], plan[n][2]).present }
            stop == IF yielding = {} THEN Len(plan)
                    ELSE CHOOSE n \in yielding : \A o \in yielding : n <= o
            used == IF yielding = {} THEN NoLiquidity
                    ELSE get_options_liquidity(call.db, plan[stop][1], plan[stop][2])
        IN /\ LiquidityLookups = SubSeq(plan, 1, stop)
           /\ ret.value.options_liquidity
                 = [total_oi |-> used.total_oi, total_volume |-> used.total_volume,
                    expiry |-> used.expiry]

\* C8: research_stock_with_announcement never propagates a collaborator's failure:
\* it returns a result instead of raising.
C8_NoFailurePropagates ==
    (pc = "done" /\ call.fn = "research_stock_with_announcement") => ~ret.raised

(***************************************************************************)
(* Single-operation runs of the pre-classification deduplication.          *)
(***************************************************************************)
DedupTexts ==
    { <<"Q2 Results", NoCategory>>, <<"Earnings call", NoCategory>>,
      <<"Order win", "Company Update">>, <<"AGM notice", NoCategory>> }

DedupCatalogue ==
    { Announcement(sym, t[1], t[2], AnnDate) : sym \in {"abc", "ABC"}, t \in DedupTexts }
    \cup { Announcement("XYZ", "Q2 Results", NoCategory, AnnDate),
           Announcement("XYZ", "Board meeting notice", "Board Meeting", AnnDate),
           Announcement(NoSymbol, "Q2 Results", NoCategory, AnnDate),
           Announcement(NoSymbol, "Order win", "Company Update", AnnDate) }

DedupInputs ==
    { [fn |-> "deduplicate_announcements_by_symbol_pre_classification", announcements |-> anns]
        : anns \in SeqsUpTo(DedupCatalogue, MaxDedupAnns) }

InitDedup ==
    /\ pc = "call"
    /\ call \in DedupInputs
    /\ ret = NoReturn
    /\ state = NoState
    /\ result = NoResult
    /\ llm_calls = <<>>
    /\ research_calls = <<>>
    /\ scraped = <<>>
    /\ classified = <<>>
    /\ bse_events = <<>>
    /\ filter_output = <<>>

Dedup ==
    /\ pc = "call"
    /\ call.fn = "deduplicate_announcements_by_symbol_pre_classification"
    /\ ret' = Returned(deduplicate_announcements_by_symbol_pre_classification(call.announcements), <<>>)
    /\ pc' = "done"
    /\ UNCHANGED <<state, result, llm_calls, research_calls, scraped, classified, call, bse_events, filter_output>>

NextDedup == Dedup

SpecDedup == InitDedup /\ [][NextDedup]_vars

DedupReturned ==
    pc = "done" /\ call.fn = "deduplicate_announcements_by_symbol_pre_classification"

\* the positions of the announcements of upper-cased symbol s
PositionsOf(anns, s) ==
    { i \in 1..Len(anns) : anns[i].symbol # NoSymbol /\ upper(anns[i].symbol) = s }

\* the earliest position of maximal keyword score among the announcements of symbol s
EarliestBest(anns, s) ==
    CHOOSE i \in PositionsOf(anns, s) :
        \A j \in PositionsOf(anns, s) :
            /\ PreClassificationScore(anns[j]) <= PreClassificationScore(anns[i])
            /\ (j < i => PreClassificationScore(anns[j]) < PreClassificationScore(anns[i]))

\* C10: the pre-classification dedup returns exactly one announcement per distinct
\* upper-cased symbol of its input, the earliest one of maximal keyword score among that
\* symbol's announcements; announcements without a symbol are dropped; the three
\* announcements "Q2 results" (100), "order win" (80), "board meeting notice" (10) of one
\* symbol leave the "Q2 results" one.
C10_OneBestPerSymbol ==
    DedupReturned =>
        LET anns == call.announcements
            out == ret.value
            syms == { upper(anns[i].symbol) : i \in { j \in 1..Len(anns) : anns[j].symbol # NoSymbol } }
        IN /\ Len(out) = Cardinality(syms)
           /\ \A k \in 1..Len(out) : out[k].symbol # NoSymbol
           /\ \A s \in syms :
                \E k \in 1..Len(out) :
                    /\ upper(out[k].symbol) = s
                    /\ out[k] = anns[EarliestBest(anns, s)]
                    /\ \A m \in 1..Len(out) : upper(out[m].symbol) = s => m = k
           /\ (anns = << Announcement("XYZ", "Order win", "Company Update", AnnDate),
                         Announcement("XYZ", "Q2 Results", NoCategory, AnnDate),
                         Announcement("XYZ", "Board meeting notice", "Board Meeting", AnnDate) >>
               => /\ out = << Announcement("XYZ", "Q2 Results", NoCategory, AnnDate) >>
                  /\ PreClassificationScore(anns[1]) = 80
                  /\ PreClassificationScore(anns[2]) = 100
                  /\ PreClassificationScore(anns[3]) = 10)

\* two equal-score announcements of one symbol written in different case, and one
\* without a symbol: the earlier of the two is the only one returned
C10_Witness ==
    /\ DedupReturned
    /\ call.announcements = << Announcement(NoSymbol, "Q2 Results", NoCategory, AnnDate),
                               Announcement("abc", "Earnings call", NoCategory, AnnDate),
                               Announcement("ABC", "Q2 Results", NoCategory, AnnDate) >>
    /\ ret.value = << Announcement("abc", "Earnings call", NoCategory, AnnDate) >>

(***************************************************************************)
(* Single-operation runs of filter_high_volatility_announcements.          *)
(***************************************************************************)
EventOf(dir) == CASE dir = "bullish" -> "results_positive"
                  [] dir = "bearish" -> "results_negative"
                  [] OTHER -> "neutral"

LLMOutcomes ==
    { LLMReturns(Classification(EventOf("bullish"), "bullish", WindowOf(conf), conf, "llm"))
        : conf \in Confidences }
    \cup { LLMReturns(Classification(EventOf("bearish"), "bearish", "next_day", "medium", "llm")),
           LLMReturns(Classification(EventOf("neutral"), "neutral", "same_day", "high", "llm")),
           LLMRaises("429 rate limit"), LLMRaises("timeout") }

FilterCatalogue ==
    { Announcement("XYZ", "Q2 Results", "Result", AnnDate),
      Announcement("abc", "Order win", "Company Update", AnnDate),
      Announcement("XYZ", "AGM notice", NoCategory, AnnDate),
      Announcement(NoSymbol, "Dividend declared", "Corp. Action", AnnDate),
      Announcement("XYZ", "", "Result", AnnDate),
      Announcement("abc", "Q2 Results", "Result", AnnDate) }

FilterInputs ==
    { [fn |-> "filter_high_volatility_announcements", announcements |-> anns,
       min_confidence |-> mc, max_classifications |-> n]
        : anns \in SeqsUpTo(FilterCatalogue, MaxFilterAnns),
          mc \in Confidences, n \in 1..MaxClassifications }

InitFilter ==
    /\ pc = "call"
    /\ call \in FilterInputs
    /\ ret = NoReturn
    /\ state = NoState
    /\ result = NoResult
    /\ llm_calls = <<>>
    /\ research_calls = <<>>
    /\ scraped = <<>>
    /\ classified = <<>>
    /\ bse_events = <<>>
    /\ filter_output = <<>>

Filter ==
    /\ pc = "call"
    /\ call.fn = "filter_high_volatility_announcements"
    /\ \E outcomes \in [1..Min2(call.max_classifications, Len(call.announcements)) -> LLMOutcomes] :
         LET out == filter_high_volatility_announcements(call.announcements, call.min_confidence,
                        call.max_classifications,
                        [k \in 1..Len(call.announcements) |->
                            IF k \in DOMAIN outcomes THEN outcomes[k] ELSE LLMRaises("timeout")])
         IN /\ ret' = Returned(out, <<>>)
            /\ llm_calls' = out.log
    /\ pc' = "done"
    /\ UNCHANGED <<state, result, research_calls, scraped, classified, call, bse_events, filter_output>>

NextFilter == Filter

SpecFilter == InitFilter /\ [][NextFilter]_vars

FilterReturned == pc = "done" /\ call.fn = "filter_high_volatility_announcements"

\* the explanations of the classifier's failure default in these runs
FailureExplanations ==
    { "Classification error: 429 rate limit", "Classification error: timeout" }

\* the order low < medium < high
AtLeast(confidence, min_confidence) ==
    \/ min_confidence = "low"
    \/ min_confidence = "medium" /\ confidence \in {"medium", "high"}
    \/ min_confidence = "high" /\ confidence = "high"

Qualifies(ann, min_confidence) ==
    /\ AtLeast(ann.classification.confidence, min_confidence)
    /\ ann.classification.ai_direction # "neutral"

\* C9: every announcement returned by filter_high_volatility_announcements carries a
\* classification of confidence >= min_confidence (low < medium < high) and a non-neutral
\* direction; every classified announcement meeting both is returned; an announcement that
\* received the classifier's failure default is never returned.
C9_FilterKeepsExactlyQualified ==
    FilterReturned =>
        LET out == ret.value.high_vol
            classifiedAnns == SelectSeq(ret.value.processed,
                                        LAMBDA a : a.classification # EmptyClassification)
        IN /\ \A k \in 1..Len(out) : Qualifies(out[k], call.min_confidence)
           /\ out = SelectSeq(classifiedAnns, LAMBDA a : Qualifies(a, call.min_confidence))
           /\ \A k \in 1..Len(out) : out[k].classification.explanation \notin FailureExplanations

\* min_confidence low: one announcement got the failure default and is left out, another
\* was classified bullish with low confidence and is returned
C9_Witness ==
    /\ FilterReturned
    /\ call.min_confidence = "low"
    /\ Len(ret.value.high_vol) = 1
    /\ ret.value.high_vol[1].classification.confidence = "low"
    /\ \E k \in 1..Len(ret.value.processed) :
          ret.value.processed[k].classification.explanation \in FailureExplanations

\* the entries of the log with this op for this announcement
LogCount(op, ann) ==
    Cardinality({ i \in 1..Len(llm_calls) :
                    /\ llm_calls[i].op = op
                    /\ llm_calls[i].symbol = ann.symbol
                    /\ llm_calls[i].headline = ann.headline })

\* the positions of the pre-filtered input submitted to the classifier for this
\* announcement, and those of them whose call failed with a rate-limit error
SubmittedAs(ann) ==
    { k \in 1..Len(ret.value.processed) :
        /\ ret.value.processed[k].classification # EmptyClassification
        /\ ret.value.processed[k].symbol = ann.symbol
        /\ ret.value.processed[k].headline = ann.headline }

RateLimitedAs(ann) ==
    { k \in SubmittedAs(ann) :
        ret.value.processed[k].classification.explanation
            = "Classification error: 429 rate limit" }

\* C20: in Pass C, when the classifier call for an announcement fails with a rate-limit
\* error, the filter waits the longer delay and invokes the classifier for that
\* announcement exactly once more; no announcement is submitted more than twice.
C20_RateLimitRetriedOnce ==
    FilterReturned =>
        \A k \in 1..Len(ret.value.processed) :
            LET ann == ret.value.processed[k]
            IN ann.classification # EmptyClassification =>
                 /\ LogCount("classify", ann)
                      = Cardinality(SubmittedAs(ann)) + Cardinality(RateLimitedAs(ann))
                 /\ LogCount("backoff", ann) = Cardinality(RateLimitedAs(ann))
                 /\ LogCount("classify", ann) <= 2 * Cardinality(SubmittedAs(ann))

\* the chain invocations of the log, in the order made
Submissions == SelectSeq(llm_calls, LAMBDA e : e.op = "classify")

\* the pre-filtered batch of the call, and the part of it that has a symbol and a headline
PreFilteredBatch ==
    pre_filter_high_impact_announcements(call.announcements, call.max_classifications)

Submittable == SelectSeq(PreFilteredBatch, LAMBDA a : a.symbol # NoSymbol /\ a.headline # "")

\* C21: a classifier failure on one announcement skips only that announcement: every
\* announcement of the pre-filtered batch that has a symbol and a headline is submitted
\* to the classifier, in batch order, whatever happened to the ones before it, the call
\* returns normally, and the failed announcements are not among the survivors.
C21_FailureSkipsOnlyThatAnnouncement ==
    FilterReturned =>
        /\ ~ret.raised
        /\ Len(Submissions) = Len(Submittable)
        /\ \A k \in 1..Len(Submittable) :
              /\ Submissions[k].symbol = Submittable[k].symbol
              /\ Submissions[k].headline = Submittable[k].headline
        /\ Len(ret.value.processed) = Len(PreFilteredBatch)
        /\ ret.value.high_vol =
              SelectSeq(ret.value.processed,
                        LAMBDA a : /\ a.classification # EmptyClassification
                                   /\ a.classification.explanation \notin FailureExplanations
                                   /\ Qualifies(a, call.min_confidence))

\* the first announcement of the batch fails with a non-rate-limit error, the second is
\* submitted all the same and is the one survivor
C21_Witness ==
    /\ FilterReturned
    /\ Len(ret.value.processed) = 2
    /\ ret.value.processed[1].classification.explanation = "Classification error: timeout"
    /\ Len(Submissions) = 2
    /\ ret.value.high_vol = <<ret.value.processed[2]>>

\* the ways to name, for every announcement the pre-filter returned, a position of the
\* input that holds it, no position twice
PreFilterOrigins ==
    { f \in [1..Len(ret.value.processed) -> 1..Len(call.announcements)] :
        /\ \A k \in DOMAIN f : call.announcements[f[k]] = Bare(ret.value.processed[k])
        /\ \A k, l \in DOMAIN f : k # l => f[k] # f[l] }

\* C22: the pre-filter returns only announcements of relevance score > 0, in
\* non-increasing score order with equal scores in input order, at most max_results of
\* them, and no omitted announcement of positive score scores higher than a returned
\* one; so at most max_classifications announcements are submitted to the classifier.
C22_PreFilterTopByRelevance ==
    FilterReturned =>
        LET out == ret.value.processed
        IN /\ Len(out) <= call.max_classifications
           /\ \A k \in 1..Len(out) : RelevanceScore(out[k]) > 0
           /\ \A k, l \in 1..Len(out) :
                 k < l => RelevanceScore(out[k]) >= RelevanceScore(out[l])
           /\ \E f \in PreFilterOrigins :
                 /\ \A k, l \in 1..Len(out) :
                       (k < l /\ RelevanceScore(out[k]) = RelevanceScore(out[l])) => f[k] < f[l]
                 /\ \A i \in 1..Len(call.announcements) :
                       (RelevanceScore(call.announcements[i]) > 0
                          /\ ~\E k \in 1..Len(out) : f[k] = i) =>
                            /\ Len(out) = call.max_classifications
                            /\ \A k \in 1..Len(out) :
                                  RelevanceScore(call.announcements[i]) <= RelevanceScore(out[k])
           /\ Len(Submissions) <= call.max_classifications

\* two different announcements of equal score come back in input order although the
\* second one sorts first by symbol
C22_Witness ==
    /\ FilterReturned
    /\ Len(call.announcements) = 2
    /\ call.announcements[1].symbol = "abc"
    /\ call.announcements[2].symbol = "XYZ"
    /\ RelevanceScore(call.announcements[1]) = RelevanceScore(call.announcements[2])
    /\ Len(ret.value.processed) = 2
    /\ ret.value.processed[1].symbol = "abc"
    /\ Len(Submissions) = 2

(***************************************************************************)
(* Single-operation runs of get_top_candidates_for_date.                   *)
(***************************************************************************)
UniverseSymbols == {"ABC", "XYZ", "SME"}

\* the stocks table: distinct symbols in the order the query returns them
Universes ==
    { u \in SeqsUpTo(UniverseSymbols, MaxUniverse) :
        \A i, j \in 1..Len(u) : i # j => u[i] # u[j] }

\* price tables of one symbol: no row; two rows of equal score on the target date with a
\* liquid and a thin chain; a high score over a chain below both floors; a low score over
\* a chain found only at band 0.2; a row on the day before only; a row with no live
\* chain; a row two days before only
CandidateTables ==
    { EmptyTable,
      [EmptyTable EXCEPT ![AnnDate] = PriceRow(Metrics(50, 2000, 0, 20), "near")],
      [EmptyTable EXCEPT ![AnnDate] = PriceRow(Metrics(50, 2000, 0, 20), "thin")],
      [EmptyTable EXCEPT ![AnnDate] = PriceRow(Metrics(-40, 1500, 0, 60), "dust")],
      [EmptyTable EXCEPT ![AnnDate] = PriceRow(Metrics(5, 1000, 0, 10), "wide")],
      [EmptyTable EXCEPT ![AnnDate - 1] = PriceRow(Metrics(5, 1000, 0, 10), "near")],
      [EmptyTable EXCEPT ![AnnDate] = PriceRow(Metrics(5, 1000, 0, 10), "expired")],
      [EmptyTable EXCEPT ![AnnDate - 2] = PriceRow(Metrics(50, 2000, 0, 20), "near")] }

CandidateDbs ==
    UNION { { [stocks |-> u, prices |-> p, fail |-> "none"]
                : p \in [{ u[i] : i \in 1..Len(u) } -> CandidateTables] } : u \in Universes }

CandidateCall(db, limit, min_oi, min_volume) ==
    [fn |-> "get_top_candidates_for_date", db |-> db, target_date |-> AnnDate,
     limit |-> limit, min_oi |-> min_oi, min_volume |-> min_volume]

CandidateInputs ==
    { CandidateCall(db, limit, floors[1], floors[2])
        : db \in CandidateDbs, limit \in 1..MaxLimit,
          floors \in { <<0, 0>>, <<10, 100>>, <<10, 0>>, <<1300, 100>> } }
    \cup { CandidateCall([db EXCEPT !.fail = f], 1, 10, 100)
        : db \in { c \in CandidateDbs : Len(c.stocks) = 1 }, f \in {"dates", "score", "liquidity", "liquidity_at_0.05"} }

InitCandidates ==
    /\ pc = "call"
    /\ call \in CandidateInputs
    /\ ret = NoReturn
    /\ state = NoState
    /\ result = NoResult
    /\ llm_calls = <<>>
    /\ research_calls = <<>>
    /\ scraped = <<>>
    /\ classified = <<>>
    /\ bse_events = <<>>
    /\ filter_output = <<>>

Candidates ==
    /\ pc = "call"
    /\ call.fn = "get_top_candidates_for_date"
    /\ ret' = get_top_candidates_for_date(call.db, call.target_date, call.limit,
                                          call.min_oi, call.min_volume)
    /\ pc' = "done"
    /\ UNCHANGED <<state, result, llm_calls, research_calls, scraped, classified, call, bse_events, filter_output>>

NextCandidates == Candidates

SpecCandidates == InitCandidates /\ [][NextCandidates]_vars

CandidatesReturned ==
    pc = "done" /\ call.fn = "get_top_candidates_for_date" /\ ~ret.raised

ReturnedSymbols == { ret.value[i].symbol : i \in 1..Len(ret.value) }

\* the symbols the scan skipped for the reason given
SkippedFor(reason) ==
    { ret.lookups[i][1] : i \in { k \in 1..Len(ret.lookups) : ret.lookups[k][2] = reason } }

\* C11: a symbol with a resolved liquidity snapshot is dropped by the floor rule if and
\* only if total_oi < min_oi and total_volume < min_volume both hold; clearing either
\* floor alone keeps it (it is returned unless the limit cuts it off).
C11_DroppedOnlyBelowBothFloors ==
    CandidatesReturned =>
        LET d == get_last_trade_date(call.db, call.target_date) IN
        \A k \in 1..Len(call.db.stocks) :
            LET sym == call.db.stocks[k]
                sdb == SymbolDb(call.db, sym)
                liq == FirstLiquidity(sdb, d, CandidateBands)
                both == liq.total_oi < call.min_oi /\ liq.total_volume < call.min_volume
            IN (d # NoDate /\ score_symbol_for_date(sdb, d).present /\ liq.present) =>
                  /\ (sym \in SkippedFor("low_liquidity")) <=> both
                  /\ both => sym \notin ReturnedSymbols
                  /\ (~both /\ Len(ret.value) < call.limit) => sym \in ReturnedSymbols

\* min_oi 10, min_volume 100: the symbol with oi 5 and volume 200 is returned, the one
\* with oi 5 and volume 50 is dropped
C11_Witness ==
    /\ CandidatesReturned
    /\ call.min_oi = 10 /\ call.min_volume = 100
    /\ \E i \in 1..Len(ret.value) : ret.value[i].total_oi = 5 /\ ret.value[i].total_volume = 200
    /\ \E sym \in SkippedFor("low_liquidity") :
          call.db.prices[sym][AnnDate].chain = "dust"

\* the position of a symbol in the stocks table
PositionInUniverse(sym) == CHOOSE k \in 1..Len(call.db.stocks) : call.db.stocks[k] = sym

\* C12: the list returned by get_top_candidates_for_date has at most `limit` entries, is
\* in non-increasing score order, and two returned candidates of equal score appear in
\* the order in which their symbols were enumerated from the universe.
C12_TopCandidatesOrdered ==
    CandidatesReturned =>
        /\ Len(ret.value) <= call.limit
        /\ \A i, j \in 1..Len(ret.value) :
              i < j => /\ ret.value[i].score >= ret.value[j].score
                       /\ ret.value[i].score = ret.value[j].score =>
                              PositionInUniverse(ret.value[i].symbol)
                                  < PositionInUniverse(ret.value[j].symbol)

\* three candidates pass the filter and the limit is 2: the two of equal score are
\* returned in universe order, behind neither the higher score nor each other
C12_Witness ==
    /\ CandidatesReturned
    /\ call.limit = 2 /\ Len(ret.value) = 2
    /\ call.db.stocks = <<"XYZ", "SME", "ABC">>
    /\ call.db.prices["SME"][AnnDate].row
    /\ SkippedFor("low_liquidity") = {} /\ SkippedFor("no_liquidity_at_bands") = {}
    /\ ret.value[1].score = ret.value[2].score
    /\ ret.value[1].symbol = "XYZ" /\ ret.value[2].symbol = "ABC"

\* the bands at which the scan queried the liquidity of a symbol, in the order queried
BandsQueried(sym) ==
    LET q == SelectSeq(ret.queries, LAMBDA p : p[1] = sym)
    IN [k \in 1..Len(q) |-> q[k][2]]

\* what a query of the symbol's liquidity at a band yields: a lookup error counts as empty
YieldAt(sym, d, band) ==
    IF call.db.fail = "liquidity" \/ (call.db.fail = "liquidity_at_0.05" /\ band = 50)
    THEN NoLiquidity
    ELSE get_options_liquidity(SymbolDb(call.db, sym), d, band)

\* C23: for each scored symbol the scan queries liquidity at bands 0.05, 0.10, 0.20, 0.50
\* in that order, stops at the first band that yields a snapshot and uses that
\* snapshot's totals; the symbol is dropped for want of liquidity exactly when none of
\* the four bands yields a snapshot, a lookup error at a band counting as empty for
\* that band only.
C23_BandsInOrderFirstWins ==
    CandidatesReturned =>
        LET d == get_last_trade_date(call.db, call.target_date)
            order == <<50, 100, 200, 500>>
        IN \A k \in 1..Len(call.db.stocks) :
              LET sym == call.db.stocks[k]
                  yielding == { n \in 1..4 : YieldAt(sym, d, order[n]).present }
                  stop == IF yielding = {} THEN 4
                          ELSE CHOOSE n \in yielding : \A o \in yielding : n <= o
              IN (d # NoDate /\ score_symbol_for_date(SymbolDb(call.db, sym), d).present) =>
                    /\ BandsQueried(sym) = SubSeq(order, 1, stop)
                    /\ (sym \in SkippedFor("no_liquidity_at_bands")) <=> yielding = {}
                    /\ yielding = {} => sym \notin ReturnedSymbols
                    /\ \A i \in 1..Len(ret.value) :
                          ret.value[i].symbol = sym =>
                              /\ ret.value[i].total_oi = YieldAt(sym, d, order[stop]).total_oi
                              /\ ret.value[i].total_volume
                                    = YieldAt(sym, d, order[stop]).total_volume
                              /\ ret.value[i].expiry = YieldAt(sym, d, order[stop]).expiry

\* the lookup at band 0.05 fails: band 0.10 is queried next, yields the snapshot of the
\* liquid chain, and nothing wider is queried
C23_Witness ==
    /\ CandidatesReturned
    /\ call.db.fail = "liquidity_at_0.05"
    /\ Len(ret.value) = 1
    /\ BandsQueried(ret.value[1].symbol) = <<50, 100>>
    /\ ret.value[1].total_oi = 1200

\* the dates on or before the requested one that have a price row of any symbol
TradeDates ==
    { d \in Window(AnnDate) :
        d <= call.target_date /\ \E sym \in DOMAIN call.db.prices : call.db.prices[sym][d].row }

ChainCatalogue ==
    { OptionRow(AnnDate + 3, 450, 1200, 300), OptionRow(AnnDate + 3, 405, 100, 0),
      OptionRow(AnnDate + 3, 520, 300, 0), OptionRow(AnnDate + 10, 450, 9000, 900),
      OptionRow(AnnDate - 1, 450, 70, 7), OptionRow(AnnDate + 3, 450, 0, 0),
      OptionRow(AnnDate, 460, 0, 50) }

Chains == { c \in SUBSET ChainCatalogue : Cardinality(c) <= MaxChainRows }

LiquidityInputs ==
    { [fn |-> "get_options_liquidity", spot |-> spot, chain |-> chain,
       trade_date |-> AnnDate, moneyness_band |-> band]
        : spot \in {NoSpot, Spot(0), Spot(450)}, chain \in Chains,
          band \in { CandidateBands[i] : i \in 1..Len(CandidateBands) } }

InitLiquidity ==
    /\ pc = "call"
    /\ call \in LiquidityInputs
    /\ ret = NoReturn
    /\ state = NoState
    /\ result = NoResult
    /\ llm_calls = <<>>
    /\ research_calls = <<>>
    /\ scraped = <<>>
    /\ classified = <<>>
    /\ bse_events = <<>>
    /\ filter_output = <<>>

OptionsLiquidity ==
    /\ pc = "call"
    /\ call.fn = "get_options_liquidity"
    /\ ret' = Returned(LiquiditySnapshot(call.spot, call.chain, call.trade_date,
                                         call.moneyness_band), <<>>)
    /\ pc' = "done"
    /\ UNCHANGED <<state, result, llm_calls, research_calls, scraped, classified, call, bse_events, filter_output>>

NextLiquidity == OptionsLiquidity

SpecLiquidity == InitLiquidity /\ [][NextLiquidity]_vars

LiquidityReturned == pc = "done" /\ call.fn = "get_options_liquidity"

\* the rows at the minimum expiry >= trade date with strike in [spot*(1-band), spot*(1+band)]
InBandAtNearestExpiry ==
    LET live == { r \in call.chain : r.expiry >= call.trade_date }
    IN { r \in live :
           /\ \A q \in live : r.expiry <= q.expiry
           /\ r.strike * 1000 >= call.spot.close * (1000 - call.moneyness_band)
           /\ r.strike * 1000 <= call.spot.close * (1000 + call.moneyness_band) }

\* C13: get_options_liquidity returns nothing whenever the spot close is missing or <= 0,
\* or no option-chain row of the day has expiry >= trade date, or the in-band sums of
\* open interest and volume are both zero; in every other case it returns a snapshot
\* whose total_oi and total_volume are the sums over the rows at the minimum such expiry
\* with strike in the band.
C13_SnapshotOrNothing ==
    LiquidityReturned =>
        LET oi == SumColumn(InBandAtNearestExpiry, "oi")
            volume == SumColumn(InBandAtNearestExpiry, "volume")
            nothing == \/ ~call.spot.present
                       \/ call.spot.close <= 0
                       \/ ~\E r \in call.chain : r.expiry >= call.trade_date
                       \/ (oi = 0 /\ volume = 0)
        IN IF nothing THEN ~ret.value.present
           ELSE /\ ret.value.present
                /\ ret.value.total_oi = oi
                /\ ret.value.total_volume = volume

\* spot 450, band 0.1: the snapshot holds total_oi 1200 and total_volume 300 although the
\* chain also has an expired row and a row of a later expiry
C13_Witness ==
    /\ LiquidityReturned
    /\ call.moneyness_band = 100
    /\ call.chain = { OptionRow(AnnDate + 3, 450, 1200, 300),
                      OptionRow(AnnDate + 10, 450, 9000, 900),
                      OptionRow(AnnDate - 1, 450, 70, 7) }
    /\ ret.value = Liquidity(450, AnnDate + 3, 1200, 300)

(***************************************************************************)
(* Single-operation runs of classify_direction_and_strategy on metrics at  *)
(* and around its thresholds.                                              *)
(***************************************************************************)
DirectionInputs ==
    { [fn |-> "classify_direction_and_strategy", metrics |-> Metrics(r, v, g, a)]
        : r \in {-40, -30, -29, -10, -9, 0, 9, 10, 29, 30, 35},
          v \in {1199, 1200, 1299, 1300, 1400, 1500},
          g \in {-11, -10, -9, 0},
          a \in {20, 29, 30, 39, 40, 60} }

InitDirection ==
    /\ pc = "call"
    /\ call \in DirectionInputs
    /\ ret = NoReturn
    /\ state = NoState
    /\ result = NoResult
    /\ llm_calls = <<>>
    /\ research_calls = <<>>
    /\ scraped = <<>>
    /\ classified = <<>>
    /\ bse_events = <<>>
    /\ filter_output = <<>>

ClassifyDirection ==
    /\ pc = "call"
    /\ call.fn = "classify_direction_and_strategy"
    /\ ret' = Returned(classify_direction_and_strategy(call.metrics), <<>>)
    /\ pc' = "done"
    /\ UNCHANGED <<state, result, llm_calls, research_calls, scraped, classified, call, bse_events, filter_output>>

NextDirection == ClassifyDirection

SpecDirection == InitDirection /\ [][NextDirection]_vars

DirectionReturned == pc = "done" /\ call.fn = "classify_direction_and_strategy"

\* C14: bullish exactly when return >= 0.03, vol_spike >= 1.3 and gap_pct > -0.01; bearish
\* exactly when not bullish and return <= -0.03 and vol_spike >= 1.3; neutral otherwise.
\* A directional hint is the near-ATM call/put when atr_pct < 0.04 and the spread
\* otherwise; a neutral hint is 'very quiet' when |return| < 0.01 and vol_spike < 1.2,
\* else 'range-bound' when atr_pct >= 0.03, else 'no strong view'.
C14_DirectionThresholds ==
    DirectionReturned =>
        LET m == call.metrics
            bullish == m.ret >= 30 /\ m.vol_spike >= 1300 /\ m.gap_pct > -10
            bearish == ~bullish /\ m.ret <= -30 /\ m.vol_spike >= 1300
            single == m.atr_pct < 40
            direction == ret.value[1]
            hint == ret.value[2]
        IN /\ (direction = "bullish") <=> bullish
           /\ (direction = "bearish") <=> bearish
           /\ (direction = "neutral") <=> (~bullish /\ ~bearish)
           /\ bullish => hint = (IF single THEN "buy near-ATM call" ELSE "bull call spread")
           /\ bearish => hint = (IF single THEN "buy near-ATM put" ELSE "bear put spread")
           /\ (~bullish /\ ~bearish) =>
                 hint = (IF Abs(m.ret) < 10 /\ m.vol_spike < 1200 THEN "very quiet"
                         ELSE IF m.atr_pct >= 30 THEN "range-bound options"
                         ELSE "no strong view")

\* return 0.03 and vol_spike 1.3 with a gap of exactly -0.01: not bullish
C14_Witness ==
    /\ DirectionReturned
    /\ call.metrics = Metrics(30, 1300, -10, 30)
    /\ ret.value = <<"neutral", "range-bound options">>

(***************************************************************************)
(* Single-operation runs of research_multiple_stocks.  dbs[k] is the       *)
(* database as the k-th announcement's research finds it.                  *)
(***************************************************************************)
Classified(ann, cls) == [ann EXCEPT !.classification = cls]

\* classified announcements: two researchable ones, one without a symbol, one without an
\* event date
BatchCatalogue ==
    { Classified(Announcement("abc", "Q2 Results", "Result", AnnDate),
                 Classification("results_positive", "bullish", "same_day", "high", "llm")),
      Classified(Announcement("XYZ", "SEBI penalty", NoCategory, AnnDate),
                 Classification("regulatory", "bearish", "next_day", "medium", "llm")),
      Classified(Announcement(NoSymbol, "Q2 Results", "Result", AnnDate),
                 Classification("results_positive", "bullish", "same_day", "high", "llm")),
      Classified(Announcement("ABC", "Order win", "Company Update", NoDate),
                 Classification("order_win", "bullish", "next_day", "high", "llm")) }

BatchDbs ==
    { [prices |-> EmptyTable, fail |-> "none"],
      [prices |-> [EmptyTable EXCEPT ![AnnDate] = PriceRow(Metrics(50, 2000, 0, 20), "near")],
       fail |-> "none"],
      [prices |-> [EmptyTable EXCEPT ![AnnDate] = PriceRow(Metrics(5, 1000, 0, 10), "none")],
       fail |-> "none"],
      [prices |-> EmptyTable, fail |-> "score"] }

InitBatch ==
    /\ pc = "call"
    /\ \E anns \in SeqsUpTo(BatchCatalogue, MaxBatch) :
         \E dbs \in [1..Len(anns) -> BatchDbs] :
            call = [fn |-> "research_multiple_stocks", announcements |-> anns, dbs |-> dbs]
    /\ ret = NoReturn
    /\ state = NoState
    /\ result = NoResult
    /\ llm_calls = <<>>
    /\ research_calls = <<>>
    /\ scraped = <<>>
    /\ classified = <<>>
    /\ bse_events = <<>>
    /\ filter_output = <<>>

ResearchBatch ==
    /\ pc = "call"
    /\ call.fn = "research_multiple_stocks"
    /\ ret' = Returned(research_multiple_stocks(call.dbs, call.announcements), <<>>)
    /\ research_calls' = ResearchCalls(call.announcements, 1)
    /\ pc' = "done"
    /\ UNCHANGED <<state, result, llm_calls, scraped, classified, call, bse_events, filter_output>>

NextBatch == ResearchBatch

SpecBatch == InitBatch /\ [][NextBatch]_vars

BatchReturned == pc = "done" /\ call.fn = "research_multiple_stocks"

\* what researching the k-th announcement of the batch on its own does
ResearchOf(k) ==
    research_stock_with_announcement(call.dbs[k], call.announcements[k].symbol,
                                     call.announcements[k].event_date,
                                     call.announcements[k].classification)

\* the announcements with a symbol and an event date whose research does not raise
Researchable ==
    { k \in 1..Len(call.announcements) :
        /\ call.announcements[k].symbol # NoSymbol
        /\ call.announcements[k].event_date # NoDate
        /\ ~ResearchOf(k).raised }

\* C17: research_multiple_stocks returns its results in non-increasing confidence_score
\* order, and an exception while researching one announcement removes only that
\* announcement: every other announcement with a symbol and an event date is still
\* researched and returned.
C17_BatchSortedAndFailureIsolated ==
    BatchReturned =>
        /\ \A i, j \in 1..Len(ret.value) :
              i < j => ret.value[i].final_recommendation.confidence_score
                          >= ret.value[j].final_recommendation.confidence_score
        /\ Len(ret.value) = Cardinality(Researchable)
        /\ \A k \in Researchable : \E i \in 1..Len(ret.value) : ret.value[i] = ResearchOf(k).value
        /\ \A i \in 1..Len(ret.value) : \E k \in Researchable : ret.value[i] = ResearchOf(k).value
        /\ \A k \in 1..Len(call.announcements) :
              (call.announcements[k].symbol # NoSymbol /\ call.announcements[k].event_date # NoDate)
                  => \E c \in 1..Len(research_calls) :
                        research_calls[c].symbol = call.announcements[k].symbol

\* three announcements: the research of the second one raises, the third scores higher
\* than the first; the result is the third followed by the first
C17_Witness ==
    /\ BatchReturned
    /\ Len(call.announcements) = 3
    /\ Researchable = {1, 3}
    /\ ResearchOf(2).raised
    /\ ret.value = << ResearchOf(3).value, ResearchOf(1).value >>
    /\ ResearchOf(3).value.final_recommendation.confidence_score
          > ResearchOf(1).value.final_recommendation.confidence_score

(***************************************************************************)
(* The price feature engine (signals.py) on the daily_prices rows of one   *)
(* symbol.  Prices and volumes are integers, ratios are in thousandths     *)
(* (rounded down), and a float is a record that says whether it is NaN.    *)
(* Closes and volumes are positive, so no division is by zero.             *)
(***************************************************************************)
NaN == [nan |-> TRUE, v |-> 0]

Num(x) == [nan |-> FALSE, v |-> x]

\* `x or 0.0` on a float: 0.0 gives 0.0, and NaN, being truthy, stays NaN
OrZero(x) == IF ~x.nan /\ x.v = 0 THEN Num(0) ELSE x

LOOKBACK_DAYS_DEFAULT == 5

RollingWindow == 3

Bar(d, o, h, l, c, vol) ==
    [date |-> d, open |-> o, high |-> h, low |-> l, close |-> c, volume |-> vol]

\* rows ordered by date
RECURSIVE OrderByDate(_)
OrderByDate(rows) ==
    IF rows = {} THEN <<>>
    ELSE LET first == CHOOSE r \in rows : \A q \in rows : r.date <= q.date
         IN <<first>> \o OrderByDate(rows \ {first})

\* get_price_history, lines 15-58: the rows dated in [end_date - 2 * lookback_days, end_date]
get_price_history(rows, end_date, lookback_days) ==
    OrderByDate({ r \in rows : r.date >= end_date - lookback_days * 2 /\ r.date <= end_date })

Max2(a, b) == IF a > b THEN a ELSE b

\* lines 81-90: the previous close is the row's own close on the first row
PrevClose(df, i) == IF i = 1 THEN df[i].close ELSE df[i - 1].close

TrueRange(df, i) ==
    Max2(df[i].high - df[i].low,
         Max2(Abs(df[i].high - PrevClose(df, i)), Abs(df[i].low - PrevClose(df, i))))

\* the sum of a column over the rolling window ending at row i: rows i - 2 .. i that exist
RECURSIVE RollingSum(_, _, _)
RollingSum(column, i, n) ==
    IF n = 0 \/ i < 1 THEN 0 ELSE column[i] + RollingSum(column, i - 1, n - 1)

RollingCount(i) == Min2(i, RollingWindow)

TrueRanges(df) == [i \in 1..Len(df) |-> TrueRange(df, i)]

Volumes(df) == [i \in 1..Len(df) |-> df[i].volume]

\* line 78: close.pct_change(), NaN on the first row
PctChange(df, i) ==
    IF i = 1 THEN NaN
    ELSE Num(((df[i].close - df[i - 1].close) * 1000) \div df[i - 1].close)

\* compute_basic_features, lines 61-105: the feature columns of every row
compute_basic_features(df) ==
    [i \in 1..Len(df) |->
        [date |-> df[i].date,
         ret |-> PctChange(df, i),
         atr_pct |-> Num((RollingSum(TrueRanges(df), i, RollingWindow) * 1000)
                           \div (RollingCount(i) * df[i].close)),
         vol_spike |-> Num((df[i].volume * 1000 * RollingCount(i))
                             \div RollingSum(Volumes(df), i, RollingWindow)),
         gap_pct |-> Num(((df[i].open - PrevClose(df, i)) * 1000) \div PrevClose(df, i))]]

\* score_row, lines 108-137: a feature that is NaN adds nothing
score_row_notna(row) ==
    (IF row.atr_pct.nan THEN 0 ELSE row.atr_pct.v * 100)
    + (IF row.vol_spike.nan THEN 0 ELSE Max2(0, row.vol_spike.v - 1000) * 2)
    + (IF row.gap_pct.nan THEN 0 ELSE Abs(row.gap_pct.v) * 10)
    + (IF row.ret.nan THEN 0 ELSE Abs(row.ret.v) * 10)

NoFeatureRow ==
    [present |-> FALSE, score |-> Num(0), atr_pct |-> Num(0), vol_spike |-> Num(0),
     gap_pct |-> Num(0), ret |-> Num(0)]

\* score_symbol_for_date, lines 140-171, on the symbol's daily_prices rows
FeatureRowOn(rows, target_date, lookback_days) ==
    LET df == get_price_history(rows, target_date, lookback_days)
        features == compute_basic_features(df)
        at == { i \in 1..Len(features) : features[i].date = target_date }
    IN IF df = <<>> \/ at = {} THEN NoFeatureRow
       ELSE LET row == features[CHOOSE i \in at : TRUE]
            IN [present |-> TRUE,
                score |-> Num(score_row_notna(row)),
                atr_pct |-> OrZero(row.atr_pct),
                vol_spike |-> OrZero(row.vol_spike),
                gap_pct |-> OrZero(row.gap_pct),
                ret |-> OrZero(row.ret)]

(***************************************************************************)
(* Single-operation runs of score_symbol_for_date on a price history.      *)
(***************************************************************************)
\* days before, inside and at the end of the lookback window of the target date
HistoryDates == {AnnDate - 11, AnnDate - 2, AnnDate - 1, AnnDate}

BarShapes ==
    { <<100, 110, 95, 105, 1000>>, <<105, 106, 104, 105, 3000>>,
      <<120, 125, 118, 120, 1000>>, <<98, 99, 90, 92, 2000>> }

Histories ==
    UNION { { { Bar(d, f[d][1], f[d][2], f[d][3], f[d][4], f[d][5]) : d \in D }
                : f \in [D -> BarShapes] }
            : D \in { S \in SUBSET HistoryDates : Cardinality(S) <= MaxHistory } }

FeatureInputs ==
    { [fn |-> "score_symbol_for_date", rows |-> rows, target_date |-> AnnDate]
        : rows \in Histories }

InitFeatures ==
    /\ pc = "call"
    /\ call \in FeatureInputs
    /\ ret = NoReturn
    /\ state = NoState
    /\ result = NoResult
    /\ llm_calls = <<>>
    /\ research_calls = <<>>
    /\ scraped = <<>>
    /\ classified = <<>>
    /\ bse_events = <<>>
    /\ filter_output = <<>>

ScoreSymbol ==
    /\ pc = "call"
    /\ call.fn = "score_symbol_for_date"
    /\ ret' = Returned(FeatureRowOn(call.rows, call.target_date, LOOKBACK_DAYS_DEFAULT), <<>>)
    /\ pc' = "done"
    /\ UNCHANGED <<state, result, llm_calls, research_calls, scraped, classified, call, bse_events, filter_output>>

NextFeatures == ScoreSymbol

SpecFeatures == InitFeatures /\ [][NextFeatures]_vars

FeaturesReturned == pc = "done" /\ call.fn = "score_symbol_for_date"

\* the history in the lookback window is the single row on the target date
SingleRowHistory ==
    LET df == get_price_history(call.rows, call.target_date, LOOKBACK_DAYS_DEFAULT)
    IN Len(df) = 1 /\ df[1].date = call.target_date

\* C18: for a symbol whose price history in the lookback window is the single row on
\* the target date, score_symbol_for_date returns a FeatureRow in which every field is
\* defined (none NaN): return = 0, atr = the true range of that row, vol_spike =
\* volume / volume, and the score is finite.
C18_SingleRowFullyDefined ==
    (FeaturesReturned /\ SingleRowHistory) =>
        LET row == get_price_history(call.rows, call.target_date, LOOKBACK_DAYS_DEFAULT)[1]
            f == ret.value
        IN /\ f.present
           /\ ~f.ret.nan /\ ~f.atr_pct.nan /\ ~f.vol_spike.nan /\ ~f.gap_pct.nan /\ ~f.score.nan
           /\ f.ret = Num(0)
           /\ f.atr_pct = Num(((row.high - row.low) * 1000) \div row.close)
           /\ f.vol_spike = Num(1000)

(***************************************************************************)
(* Announcement ingestion (bse_scraper.py).  A scraped announcement is the *)
(* dict scrape_bse_announcements yields; a missing symbol, scrip_code or   *)
(* headline is "", a missing event_date is NoDate.  The bse_events table   *)
(* is the sequence of the events committed so far.                         *)
(***************************************************************************)
ScrapedAnn(sym, code, headline, d, cat) ==
    [symbol |-> sym, scrip_code |-> code, headline |-> headline, event_date |-> d,
     category |-> cat]

\* date.isoformat(): the dates of the model are day numbers, written in decimal
IsoFormat(d) == ToString(d)

\* _generate_content_hash, lines 19-22: the md5 digest of the formatted string.  The
\* digest is taken as collision-free, so it is represented by the string it digests.
generate_content_hash(symbol, headline, event_date) ==
    symbol \o "|" \o headline \o "|" \o IsoFormat(event_date)

\* lines 648-658; published_at, url and source play no part in deduplication
BSEEvent(ann, content_hash) ==
    [symbol |-> ann.symbol, scrip_code |-> ann.scrip_code, headline |-> ann.headline,
     category |-> ann.category, event_date |-> ann.event_date,
     content_hash |-> content_hash]

HashesOf(events) == { events[i].content_hash : i \in 1..Len(events) }

\* the loop of lines 623-660 without the `content_hash in announcements_dict` test
RECURSIVE PrepareEventsNoDedup(_, _)
PrepareEventsNoDedup(all_announcements, events) ==
    IF all_announcements = <<>> THEN events
    ELSE LET ann == Head(all_announcements)
             rest == Tail(all_announcements)
             identifier == IF ann.symbol # NoSymbol THEN ann.symbol ELSE ann.scrip_code
             content_hash == generate_content_hash(identifier, ann.headline, ann.event_date)
         IN IF ann.headline = "" \/ ann.event_date = NoDate
            THEN PrepareEventsNoDedup(rest, events)
            ELSE IF ann.symbol = NoSymbol /\ ann.scrip_code = ""
            THEN PrepareEventsNoDedup(rest, events)
            ELSE PrepareEventsNoDedup(rest, Append(events, BSEEvent(ann, content_hash)))

\* lines 621-660: announcements_dict, as the sequence of its events in insertion order
RECURSIVE PrepareEvents(_, _)
PrepareEvents(all_announcements, events) ==
    IF all_announcements = <<>> THEN events
    ELSE LET ann == Head(all_announcements)
             rest == Tail(all_announcements)
             identifier == IF ann.symbol # NoSymbol THEN ann.symbol ELSE ann.scrip_code
             content_hash == generate_content_hash(identifier, ann.headline, ann.event_date)
         IN IF ann.headline = "" \/ ann.event_date = NoDate
            THEN PrepareEvents(rest, events)
            ELSE IF ann.symbol = NoSymbol /\ ann.scrip_code = ""
            THEN PrepareEvents(rest, events)
            ELSE IF content_hash \in HashesOf(events)
            THEN PrepareEvents(rest, events)
            ELSE PrepareEvents(rest, Append(events, BSEEvent(ann, content_hash)))

\* lines 670-682: the events whose content_hash is not in the table yet
NewAnnouncements(table, events) ==
    LET existing_hashes == HashesOf(events) \cap HashesOf(table)
    IN SelectSeq(events, LAMBDA event : event.content_hash \notin existing_hashes)

batch_size == 50

\* lines 707-722: after a failed batch commit, each event is committed on its own and
\* the ones whose commit fails are skipped
RECURSIVE InsertIndividually(_, _, _, _)
InsertIndividually(table, new_announcements, i, db) ==
    IF i > Len(new_announcements) \/ i > db.last THEN table
    ELSE InsertIndividually(IF i \in db.failed_items THEN table
                            ELSE Append(table, new_announcements[i]),
                            new_announcements, i + 1, db)

\* lines 693-722: the batches starting at position i, under the commit outcomes db
RECURSIVE InsertBatches(_, _, _, _)
InsertBatches(table, new_announcements, i, db) ==
    IF i > Len(new_announcements) THEN table
    ELSE LET last == Min2(i + batch_size - 1, Len(new_announcements))
             batch == SubSeq(new_announcements, i, last)
             after == IF i \in db.failed_batches
                      THEN InsertIndividually(table, new_announcements, i,
                                              [db EXCEPT !.last = last])
                      ELSE table \o batch
         IN InsertBatches(after, new_announcements, i + batch_size, db)

\* the commit outcomes one run can meet: which batches (named by their first position)
\* fail to commit, and which events then fail on their own
CommitOutcomes(new_announcements) ==
    LET starts == { i \in 1..Len(new_announcements) : (i - 1) % batch_size = 0 }
    IN { [failed_batches |-> {}, failed_items |-> {}, last |-> 0] }
       \cup { [failed_batches |-> B, failed_items |-> F, last |-> 0]
                : B \in (SUBSET starts) \ {{}}, F \in SUBSET (1..Len(new_announcements)) }

\* ingest_bse_announcements, lines 558-738, once the scrape has returned
IngestScraped(table, all_announcements, db) ==
    LET events == PrepareEvents(all_announcements, <<>>)
        new_announcements == NewAnnouncements(table, events)
    IN IF events = <<>> THEN [table |-> table, inserted |-> 0]
       ELSE IF new_announcements = <<>> THEN [table |-> table, inserted |-> 0]
       ELSE LET after == InsertBatches(table, new_announcements, 1, db)
            IN [table |-> after, inserted |-> Len(after) - Len(table)]

(***************************************************************************)
(* Runs of ingest_bse_announcements one after the other on the same table. *)
(***************************************************************************)
IngestCatalogue ==
    { ScrapedAnn("ABC", "500", "Results", AnnDate, "Result"),
      ScrapedAnn("ABC", "500", "Results", AnnDate, "Board Meeting"),
      ScrapedAnn(NoSymbol, "500", "Results", AnnDate, "Result"),
      ScrapedAnn("ABC", "500", "", AnnDate, "Result"),
      ScrapedAnn(NoSymbol, "", "Order win", AnnDate - 1, "Company Update") }

Scrapes == UNION { [1..n -> IngestCatalogue] : n \in 0..MaxScrape }

InitIngest ==
    /\ pc = "call"
    /\ call = [fn |-> "ingest_bse_announcements", run |-> 0, before |-> <<>>]
    /\ ret = NoReturn
    /\ state = NoState
    /\ result = NoResult
    /\ llm_calls = <<>>
    /\ research_calls = <<>>
    /\ scraped = <<>>
    /\ classified = <<>>
    /\ bse_events = <<>>
    /\ filter_output = <<>>

\* one run; `scraped` keeps what the run scraped and call.before the table it found
Ingest ==
    /\ pc = "call"
    /\ call.fn = "ingest_bse_announcements"
    /\ call.run < MaxRuns
    /\ \/ \* lines 731-734: the scrape fails, the session is rolled back, the error re-raised
          /\ ret' = Raised("scrape", <<>>)
          /\ scraped' = <<>>
          /\ UNCHANGED bse_events
       \/ \E all_announcements \in Scrapes :
            \E db \in CommitOutcomes(NewAnnouncements(bse_events,
                                        PrepareEvents(all_announcements, <<>>))) :
               LET run == IngestScraped(bse_events, all_announcements, db)
               IN /\ bse_events' = run.table
                  /\ ret' = Returned(run.inserted, <<>>)
                  /\ scraped' = all_announcements
    /\ call' = [call EXCEPT !.run = @ + 1, !.before = bse_events]
    /\ UNCHANGED <<pc, state, result, llm_calls, research_calls, classified, filter_output>>

NextIngest == Ingest

SpecIngest == InitIngest /\ [][NextIngest]_vars

IngestReturned == call.fn = "ingest_bse_announcements" /\ call.run > 0 /\ ~ret.raised

\* the digests of the scraped announcements that have a headline, a date and an identifier
ScrapedHashes ==
    { generate_content_hash(IF scraped[i].symbol # NoSymbol THEN scraped[i].symbol
                            ELSE scraped[i].scrip_code,
                            scraped[i].headline, scraped[i].event_date)
        : i \in { j \in 1..Len(scraped) :
                    /\ scraped[j].headline # "" /\ scraped[j].event_date # NoDate
                    /\ (scraped[j].symbol # NoSymbol \/ scraped[j].scrip_code # "") } }

\* C19: announcement ingestion is idempotent on content_hash: after any sequence of
\* ingest_bse_announcements runs no two persisted announcements share a content_hash
\* (the digest of identifier, headline and event_date); a run only appends, it appends
\* only scraped digests, as many rows as it reports, and a run whose scraped
\* announcements are all persisted already inserts zero rows.
C19_IngestionIdempotent ==
    /\ \A i, j \in 1..Len(bse_events) :
          bse_events[i].content_hash = bse_events[j].content_hash => i = j
    /\ \A i \in 1..Len(bse_events) :
          bse_events[i].content_hash =
              generate_content_hash(IF bse_events[i].symbol # NoSymbol
                                    THEN bse_events[i].symbol
                                    ELSE bse_events[i].scrip_code,
                                    bse_events[i].headline, bse_events[i].event_date)
    /\ IngestReturned =>
          /\ Len(bse_events) = Len(call.before) + ret.value
          /\ SubSeq(bse_events, 1, Len(call.before)) = call.before
          /\ HashesOf(bse_events) \subseteq HashesOf(call.before) \cup ScrapedHashes
          /\ ScrapedHashes \subseteq HashesOf(call.before) =>
                ret.value = 0 /\ bse_events = call.before
    /\ (call.fn = "ingest_bse_announcements" /\ call.run > 0 /\ ret.raised) =>
          bse_events = call.before

\* the same announcement scraped under two categories is persisted once, and the
\* identical second run inserts nothing
C19_Witness ==
    /\ IngestReturned
    /\ call.run = 2
    /\ Len(scraped) = 2
    /\ scraped[1].category # scraped[2].category
    /\ Cardinality(ScrapedHashes) = 1
    /\ Len(call.before) = 1
    /\ HashesOf(call.before) = ScrapedHashes
    /\ ret.value = 0

(***************************************************************************)
(* The candidate scan on universes larger than its working set.  Line 117  *)
(* keeps the 500 best-scored symbols before liquidity is looked at; here   *)
(* the working set and the universe are scaled down together, a working    *)
(* set of 1 or 2 symbols against universes of up to MaxUniverse.           *)
(***************************************************************************)
InitWorkingSet ==
    /\ pc = "call"
    /\ \E db \in CandidateDbs, limit \in 1..MaxLimit, w \in 1..MaxWorkingSet :
          call = [fn |-> "TopCandidates", db |-> db, target_date |-> AnnDate,
                  limit |-> limit, min_oi |-> 10, min_volume |-> 100, working_set |-> w]
    /\ ret = NoReturn
    /\ state = NoState
    /\ result = NoResult
    /\ llm_calls = <<>>
    /\ research_calls = <<>>
    /\ scraped = <<>>
    /\ classified = <<>>
    /\ bse_events = <<>>
    /\ filter_output = <<>>

RankCandidates ==
    /\ pc = "call"
    /\ call.fn = "TopCandidates"
    /\ ret' = TopCandidates(call.db, call.target_date, call.limit, call.min_oi,
                            call.min_volume, call.working_set)
    /\ pc' = "done"
    /\ UNCHANGED <<state, result, llm_calls, research_calls, scraped, classified, call, bse_events, filter_output>>

NextWorkingSet == RankCandidates

SpecWorkingSet == InitWorkingSet /\ [][NextWorkingSet]_vars

RankingReturned == pc = "done" /\ call.fn = "TopCandidates" /\ ~ret.raised

EffectiveDate == get_last_trade_date(call.db, call.target_date)

\* the symbols with a FeatureRow on the effective date, and their scores
ScoredSymbols ==
    { sym \in { call.db.stocks[k] : k \in 1..Len(call.db.stocks) } :
        EffectiveDate # NoDate
          /\ score_symbol_for_date(SymbolDb(call.db, sym), EffectiveDate).present }

ScoreOf(sym) == score_row(score_symbol_for_date(SymbolDb(call.db, sym), EffectiveDate))

\* the scored symbols that resolve liquidity at some band and pass the floor rule
EligibleSymbols ==
    { sym \in ScoredSymbols :
        LET liq == FirstLiquidity(SymbolDb(call.db, sym), EffectiveDate, CandidateBands)
        IN liq.present
             /\ ~(liq.total_oi < call.min_oi /\ liq.total_volume < call.min_volume) }

\* the scored symbols that come before sym by score, ties in universe order
AheadOf(sym) ==
    { t \in ScoredSymbols :
        \/ ScoreOf(t) > ScoreOf(sym)
        \/ ScoreOf(t) = ScoreOf(sym) /\ PositionInUniverse(t) < PositionInUniverse(sym) }

\* C30 as stated: the result is the true top-`limit` of all eligible symbols, for any
\* universe size: an eligible symbol is left out only when the result is full, and then
\* its score is at most the score of every returned candidate.
C30_TrueTopOfAllEligible ==
    RankingReturned =>
        \A sym \in EligibleSymbols \ ReturnedSymbols :
            /\ Len(ret.value) = call.limit
            /\ \A i \in 1..Len(ret.value) : ScoreOf(sym) <= ret.value[i].score

\* C30, amended: the result is the top-`limit` of the eligible symbols of the working
\* set, the best-scored symbols up to the working set size: every returned candidate is
\* eligible and in the working set, an eligible symbol of the working set is left out
\* only when the result is full, and an eligible symbol that is left out scores at most
\* as much as every returned candidate.
C30_TopOfWorkingSet ==
    RankingReturned =>
        /\ ReturnedSymbols \subseteq EligibleSymbols
        /\ \A sym \in ReturnedSymbols : Cardinality(AheadOf(sym)) < call.working_set
        /\ \A sym \in EligibleSymbols \ ReturnedSymbols :
              /\ Cardinality(AheadOf(sym)) < call.working_set => Len(ret.value) = call.limit
              /\ \A i \in 1..Len(ret.value) : ScoreOf(sym) <= ret.value[i].score

\* three scored symbols against a working set of two: the best scored is below both
\* floors, the third is eligible and left out, and the result holds one candidate
\* although two were asked for
C30_Witness ==
    /\ RankingReturned
    /\ call.working_set = 2 /\ call.limit = 2
    /\ Cardinality(ScoredSymbols) = 3
    /\ Len(ret.value) = 1
    /\ EligibleSymbols \ ReturnedSymbols # {}

====
